---------------------------- MODULE Spec2Model ----------------------------
(***************************************************************************)
(* Model of the enhanced root-layer validator                             *)
(* (controlplane/baseline/validation/enhanced_validator.py).              *)
(*                                                                         *)
(* Text is modelled as a tuple of symbols (atomic chunks of characters):   *)
(* the file name root.specs.x.yaml is <<"root",".","specs",".","x",".",    *)
(* "yaml">>.  Substring tests and the regular expressions of the source    *)
(* are operators over such tuples.  A parsed YAML value is a record        *)
(* [k |-> kind, v |-> payload]; a mapping keeps its keys in document order *)
(* as a tuple of [key, val] pairs, as a Python dict does.                  *)
(***************************************************************************)
EXTENDS Integers, Sequences, FiniteSets, TLC

VARIABLES
    config_root,      \* listing of config_root.glob("root.*.yaml")
    specs_root,       \* listing of specs_root.glob("root.specs.*.yaml")
    registry_root,    \* listing of registry_root.glob("root.registry.*.yaml")
    gates_file,       \* config_root / "gates.map.yaml": a tuple of 0 or 1 files
    pc,               \* position of main() in the run
    issues,           \* local list `issues` of generate_enhanced_report
    metrics,          \* local map `metrics` of generate_enhanced_report
    results,          \* self.results
    report,           \* narrative returned by generate_enhanced_report
    written,          \* evidence files written by save_results
    exit_status,      \* process exit status (-1 while running)
    traceback,        \* the step that raised the uncaught exception, or "none"
    dependency_graph, \* local of validate_dependency_graph
    all_files,        \* local of validate_dependency_graph
    visited,          \* local of validate_dependency_graph
    rec_stack,        \* local of validate_dependency_graph
    todo,             \* nodes the outer loop (line 339) has not reached yet
    frames,           \* call stack of has_cycle: <<[node, rest]>>
    dep_issues        \* local list `issues` of validate_dependency_graph

vars == <<config_root, specs_root, registry_root, gates_file, pc, issues,
          metrics, results, report, written, exit_status, traceback,
          dependency_graph,
          all_files, visited, rec_stack, todo, frames, dep_issues>>

fsvars == <<config_root, specs_root, registry_root, gates_file>>
dfsvars == <<dependency_graph, all_files, visited, rec_stack, todo, frames,
             dep_issues>>

---------------------------------------------------------------------------
(* Generic helpers                                                         *)

Range(s) == {s[i] : i \in DOMAIN s}

RECURSIVE SumSeq(_)
SumSeq(s) == IF s = <<>> THEN 0 ELSE Head(s) + SumSeq(Tail(s))

RECURSIVE Flatten(_)
Flatten(ss) == IF ss = <<>> THEN <<>> ELSE Head(ss) \o Flatten(Tail(ss))

Max(a, b) == IF a >= b THEN a ELSE b
Min(a, b) == IF a <= b THEN a ELSE b

\* All orders in which the elements of a finite set can be iterated.
Perms(S) == {p \in [1..Cardinality(S) -> S] : Range(p) = S}

\* Python `pat in text` on strings.
Contains(text, pat) ==
    \E i \in 0..(Len(text) - Len(pat)) :
        \A j \in 1..Len(pat) : text[i + j] = pat[j]

StartsWith(text, pat) ==
    /\ Len(pat) <= Len(text)
    /\ \A j \in 1..Len(pat) : text[j] = pat[j]

---------------------------------------------------------------------------
(* Parsed YAML values                                                      *)

Null      == [k |-> "null", v |-> <<>>]
Str(s)    == [k |-> "str",  v |-> s]
Num(n)    == [k |-> "int",  v |-> n]
Bool(b)   == [k |-> "bool", v |-> b]
List(s)   == [k |-> "list", v |-> s]
Map(s)    == [k |-> "map",  v |-> s]
Date      == [k |-> "date", v |-> <<>>]   \* an unquoted YAML date
KV(a, b)  == [key |-> a, val |-> b]
EmptyMap  == Map(<<>>)

\* Python truthiness of a parsed value.
Truthy(c) ==
    CASE c.k = "null" -> FALSE
      [] c.k = "str"  -> c.v # <<>>
      [] c.k = "int"  -> c.v # 0
      [] c.k = "bool" -> c.v
      [] c.k = "list" -> c.v # <<>>
      [] c.k = "map"  -> c.v # <<>>
      [] c.k = "date" -> TRUE

\* `key in c` raises TypeError unless c is a mapping, a sequence or a string.
InRaises(c) == c.k \notin {"map", "list", "str"}

\* Python `key in c` for a string key (c a mapping, a sequence or a string).
KeyIn(key, c) ==
    CASE c.k = "map"  -> \E i \in DOMAIN c.v : c.v[i].key = key
      [] c.k = "list" -> \E i \in DOMAIN c.v : c.v[i].k = "str" /\ c.v[i].v = <<key>>
      [] c.k = "str"  -> Contains(c.v, <<key>>)
      [] OTHER        -> FALSE

\* `c[key]` with a string key raises unless c is a mapping.
GetRaises(c) == c.k # "map"

\* Python `c[key]` for a mapping c that has the key.
Get(c, key) ==
    LET i == CHOOSE i \in DOMAIN c.v : c.v[i].key = key IN c.v[i].val

---------------------------------------------------------------------------
(* Files and paths                                                         *)

File(name, st, content) == [name |-> name, st |-> st, content |-> content]

CONFIG_DIR   == <<"controlplane", "/", "baseline", "/", "config", "/">>
SPECS_DIR    == <<"controlplane", "/", "baseline", "/", "specifications", "/">>
REGISTRY_DIR == <<"controlplane", "/", "baseline", "/", "registries", "/">>

\* str(path.relative_to(self.workspace_root))
RelPath(dir, name) == dir \o name

\* _load_yaml: the outcome of parsing a file.  A file the process may not
\* open raises PermissionError, which the except clause does not list.
LoadOk(c)  == [raised |-> FALSE, none |-> FALSE, val |-> c]
LoadNone   == [raised |-> FALSE, none |-> TRUE,  val |-> Null]
LoadRaised == [raised |-> TRUE,  none |-> FALSE, val |-> Null]

_load_yaml(f) ==
    CASE f.st = "ok"        -> LoadOk(IF Truthy(f.content) THEN f.content ELSE EmptyMap)
      [] f.st = "malformed" -> LoadNone
      [] f.st = "denied"    -> LoadRaised

\* `if content:` / `if not content:` on a load result.
HasContent(l) == ~l.raised /\ ~l.none /\ Truthy(l.val)

_determine_file_type(filename) ==
    IF \/ Contains(filename, <<"config">>)
       \/ /\ StartsWith(filename, <<"root", ".">>)
          /\ ~ \E x \in {<<"specs", ".">>, <<"registry", ".">>, <<"gates", ".">>} :
                 Contains(filename, x)
    THEN "config"
    ELSE IF Contains(filename, <<"specs", ".">>) THEN "spec"
    ELSE IF Contains(filename, <<"registry", ".">>) THEN "registry"
    ELSE IF Contains(filename, <<"gates", ".">>) THEN "gates"
    ELSE "other"

---------------------------------------------------------------------------
(* Issues                                                                  *)

\* A ValidationIssue dataclass instance (cls names the class); line_number
\* is None and suggestion a fixed text in every issue the source creates.
ValidationIssue(sev, cat, path, msg, fixable, related) ==
    [cls |-> "ValidationIssue", severity |-> sev, category |-> cat,
     file_path |-> path, message |-> msg, auto_fixable |-> fixable,
     related_files |-> related]

\* dataclasses.asdict: the dict of the fields of a dataclass instance.
asdict(x) == [f \in (DOMAIN x) \ {"cls"} |-> x[f]]

\* x["field"] raises TypeError on a dataclass instance: only a dict is
\* subscriptable.
SubscriptRaises(x) == "cls" \in DOMAIN x

\* The result of a checker: either it raised, or it returned a list.
Returned(is) == [raised |-> FALSE, issues |-> is]
Raised       == [raised |-> TRUE,  issues |-> <<>>]

\* Concatenate the results of the iterations of a loop, in order, up to the
\* first one that raises.
RECURSIVE Combine(_)
Combine(rs) ==
    IF rs = <<>> THEN Returned(<<>>)
    ELSE IF Head(rs).raised THEN Raised
    ELSE LET t == Combine(Tail(rs)) IN
         IF t.raised THEN Raised ELSE Returned(Head(rs).issues \o t.issues)

\* `for x in items: body(x)` where body appends issues or raises.
ForEach(items, body(_)) == Combine([i \in DOMAIN items |-> body(items[i])])

---------------------------------------------------------------------------
(* validate_schema_compliance                                              *)

\* _load_validation_schemas: required_fields and fields, in declaration order.
SchemaTypes == {"config", "spec", "registry"}

required_fields(type) ==
    CASE type = "config"   -> <<"version">>
      [] type = "spec"     -> <<"version", "rules">>
      [] type = "registry" -> <<"version", "entries">>

schema_fields(type) ==
    CASE type = "config"   -> <<[name |-> "version", type |-> "string"],
                                [name |-> "created", type |-> "string"],
                                [name |-> "updated", type |-> "string"]>>
      [] type = "spec"     -> <<[name |-> "version", type |-> "string"],
                                [name |-> "rules",   type |-> "array"]>>
      [] type = "registry" -> <<[name |-> "version", type |-> "string"],
                                [name |-> "entries", type |-> "array"]>>

\* isinstance(value, type_map[expected_type]); bool is a subclass of int.
_validate_field_type(value, expected_type) ==
    CASE expected_type = "string"  -> value.k = "str"
      [] expected_type = "number"  -> value.k \in {"int", "bool"}
      [] expected_type = "boolean" -> value.k = "bool"
      [] expected_type = "array"   -> value.k = "list"
      [] expected_type = "object"  -> value.k = "map"
      [] OTHER                     -> FALSE

\* Lines 134-146: one issue per required field that is not in the content.
SchemaRequired(path, type, content) ==
    LET body(rf) ==
            IF InRaises(content) THEN Raised
            ELSE IF ~KeyIn(rf, content)
                 THEN Returned(<<ValidationIssue("high", "schema", path,
                                   <<"missing required field", rf>>, TRUE, <<>>)>>)
                 ELSE Returned(<<>>)
    IN ForEach(required_fields(type), body)

\* Lines 148-164: one issue per schema field whose value has the wrong type.
SchemaTypesOf(path, type, content) ==
    LET body(fs) ==
            IF InRaises(content) THEN Raised
            ELSE IF ~KeyIn(fs.name, content) THEN Returned(<<>>)
            ELSE IF GetRaises(content) THEN Raised
            ELSE IF ~_validate_field_type(Get(content, fs.name), fs.type)
                 THEN Returned(<<ValidationIssue("medium", "schema", path,
                                   <<"field type mismatch", fs.name, fs.type>>,
                                   FALSE, <<>>)>>)
                 ELSE Returned(<<>>)
    IN ForEach(schema_fields(type), body)

\* The body of the loop of line 114 for one file of the config root.
SchemaFile(f) ==
    LET type == _determine_file_type(f.name)
        path == RelPath(CONFIG_DIR, f.name)
        l    == _load_yaml(f)
    IN  IF type \notin SchemaTypes THEN Returned(<<>>)
        ELSE IF l.raised THEN Raised
        ELSE IF l.none
             THEN Returned(<<ValidationIssue("critical", "schema", path,
                               <<"cannot parse YAML file">>, FALSE, <<>>)>>)
        ELSE Combine(<<SchemaRequired(path, type, l.val),
                       SchemaTypesOf(path, type, l.val)>>)

validate_schema_compliance(cfg) == ForEach(cfg, SchemaFile)

---------------------------------------------------------------------------
(* validate_cross_file_consistency                                         *)

\* Values a Python set or dict key can hold.
Hashable(v) == v.k \notin {"list", "map"}

\* Python equality of hashable scalars: True == 1 and False == 0.
PyKey(v) == IF v.k = "bool" THEN Num(IF v.v THEN 1 ELSE 0) ELSE v

\* Lines 172-180: the config files whose content is truthy, in glob order.
\* The result is Raised when a load raises.
LoadAll(files) ==
    LET ls == [i \in DOMAIN files |-> _load_yaml(files[i])] IN
    [raised |-> \E i \in DOMAIN ls : ls[i].raised,
     items  |-> SelectSeq([i \in DOMAIN files |->
                              [name |-> files[i].name, load |-> ls[i]]],
                          LAMBDA x : HasContent(x.load))]

\* `if field in content: d[..] = content[field]` raises on a content that
\* contains the field without being a mapping.
ReadRaises(content, field) ==
    \/ InRaises(content)
    \/ KeyIn(field, content) /\ GetRaises(content)

\* Lines 182-187: versions, a dict file name -> version, in glob order.
Versions(items) ==
    SelectSeq([i \in DOMAIN items |->
                 [name  |-> items[i].name,
                  has   |-> KeyIn("version", items[i].load.val),
                  value |-> IF KeyIn("version", items[i].load.val)
                               /\ ~GetRaises(items[i].load.val)
                            THEN Get(items[i].load.val, "version") ELSE Null]],
              LAMBDA x : x.has)

\* VersionCheck with line 189 comparing the number of declaring files, not
\* the number of distinct versions.
VersionCheck_CountsFiles(items) ==
    LET versions == Versions(items) IN
    IF \E i \in DOMAIN items : ReadRaises(items[i].load.val, "version")
    THEN Raised
    ELSE IF \E i \in DOMAIN versions : ~Hashable(versions[i].value)
    THEN Raised
    ELSE IF Len(versions) > 1
    THEN Returned(<<ValidationIssue("medium", "consistency", <<"multiple">>,
                      <<"version mismatch">>, TRUE,
                      [i \in DOMAIN versions |-> versions[i].name])>>)
    ELSE Returned(<<>>)

\* Lines 189-199.
VersionCheck(items) ==
    LET versions == Versions(items) IN
    IF \E i \in DOMAIN items : ReadRaises(items[i].load.val, "version")
    THEN Raised
    ELSE IF \E i \in DOMAIN versions : ~Hashable(versions[i].value)
    THEN Raised
    ELSE IF Cardinality({PyKey(versions[i].value) : i \in DOMAIN versions}) > 1
    THEN Returned(<<ValidationIssue("medium", "consistency", <<"multiple">>,
                      <<"version mismatch">>, TRUE,
                      [i \in DOMAIN versions |-> versions[i].name])>>)
    ELSE Returned(<<>>)

\* Lines 201-208: the timestamps dict is collected and never used.
TimestampCheck(items) ==
    IF \E i \in DOMAIN items : \E fld \in {"created", "updated", "last_modified"} :
          ReadRaises(items[i].load.val, fld)
    THEN Raised ELSE Returned(<<>>)

\* Lines 210-215: naming_patterns, a dict spec file name -> content["patterns"].
NamingPatterns(specs) ==
    LET ls == LoadAll(specs) IN
    [raised |-> \/ ls.raised
                \/ \E i \in DOMAIN ls.items : ReadRaises(ls.items[i].load.val, "patterns"),
     items  |-> SelectSeq(ls.items, LAMBDA x : KeyIn("patterns", x.load.val))]

\* re.match(pattern_regex, file_name) for a regex made of literal chunks,
\* "\\." (a literal dot) and ".*" (anything).
RECURSIVE ReMatch(_, _)
ReMatch(regex, text) ==
    IF regex = <<>> THEN TRUE
    ELSE IF Head(regex) = ".*"
         THEN \E n \in 0..Len(text) : ReMatch(Tail(regex), SubSeq(text, n + 1, Len(text)))
    ELSE IF text = <<>> THEN FALSE
    ELSE /\ Head(text) = (IF Head(regex) = "\\." THEN "." ELSE Head(regex))
         /\ ReMatch(Tail(regex), Tail(text))

\* Lines 217-233.  naming_patterns is keyed by file names of the form
\* root.specs.*.yaml and is asked for the key "naming".
NamingCheck(cfg, naming) ==
    LET hit == {i \in DOMAIN naming.items : naming.items[i].name = <<"naming">>}
        body(f) ==
            IF hit = {} THEN Returned(<<>>)
            ELSE LET pats == Get(naming.items[CHOOSE i \in hit : TRUE].load.val, "patterns") IN
                 IF pats.k # "map" THEN Raised
                 ELSE IF ~KeyIn("file_patterns", pats) THEN Returned(<<>>)
                 ELSE IF Get(pats, "file_patterns").k # "map" THEN Raised
                 ELSE ForEach(Get(pats, "file_patterns").v,
                        LAMBDA p :
                          IF p.val.k # "str" THEN Raised
                          ELSE IF ~ReMatch(p.val.v, f.name)
                          THEN Returned(<<ValidationIssue("medium", "consistency",
                                 RelPath(CONFIG_DIR, f.name),
                                 <<"file name violates naming pattern", p.key>>, FALSE,
                                 <<SPECS_DIR \o <<"root", ".", "specs", ".", "naming", ".", "yaml">>>>)>>)
                          ELSE Returned(<<>>))
    IN ForEach(cfg, body)

validate_cross_file_consistency(cfg, specs) ==
    LET all_configs == LoadAll(cfg)
        naming      == NamingPatterns(specs)
    IN  IF all_configs.raised THEN Raised
        ELSE LET v == VersionCheck(all_configs.items) IN
        IF v.raised THEN Raised
        ELSE IF TimestampCheck(all_configs.items).raised THEN Raised
        ELSE IF naming.raised THEN Raised
        ELSE Combine(<<v, NamingCheck(cfg, naming)>>)

---------------------------------------------------------------------------
(* validate_reference_integrity                                            *)

Punct     == {".", ":", "-", "/", " "}
IsWord(x) == x \notin Punct                       \* \w+
UrnChar(x)  == IsWord(x) \/ x \in {":", "-", "."} \* [:\w\-.]
PathChar(x) == IsWord(x) \/ x \in {"-", ".", "/"} \* [\w\-./]
InClass(cls, x) == IF cls = "urn" THEN UrnChar(x) ELSE PathChar(x)
Extensions == {"yaml", "yml", "md", "py", "sh"}

\* Length of the longest prefix of text whose symbols all satisfy cls.
RECURSIVE RunLen(_, _)
RunLen(text, cls) ==
    IF text = <<>> \/ ~InClass(cls, Head(text)) THEN 0 ELSE 1 + RunLen(Tail(text), cls)

\* json.dumps(content) raises TypeError on a value that is not JSON
\* serializable (yaml.safe_load turns an unquoted date into a date object).
RECURSIVE JsonRaises(_)
JsonRaises(c) ==
    CASE c.k = "date" -> TRUE
      [] c.k = "list" -> \E i \in DOMAIN c.v : JsonRaises(c.v[i])
      [] c.k = "map"  -> \E i \in DOMAIN c.v : JsonRaises(c.v[i].val)
      [] OTHER        -> FALSE

\* The texts between double quotes in json.dumps(content): every key and
\* every string value.  No pattern of the source matches a quote, digits
\* alone or the literals true/false/null, so a search of the dump is a search
\* of each of these texts.
RECURSIVE Texts(_)
Texts(c) ==
    CASE c.k = "str"  -> {c.v}
      [] c.k = "list" -> UNION {Texts(c.v[i]) : i \in DOMAIN c.v}
      [] c.k = "map"  -> UNION {{<<c.v[i].key>>} \cup Texts(c.v[i].val) : i \in DOMAIN c.v}
      [] OTHER        -> {}

\* re.findall(r'urn:[:\w\-.]+', text)
RECURSIVE FindUrns(_)
FindUrns(text) ==
    IF Len(text) < 3 THEN {}
    ELSE IF text[1] = "urn" /\ text[2] = ":" /\ UrnChar(text[3])
    THEN LET n == RunLen(SubSeq(text, 3, Len(text)), "urn") IN
         {SubSeq(text, 1, 2 + n)} \cup FindUrns(SubSeq(text, 3 + n, Len(text)))
    ELSE FindUrns(Tail(text))

_extract_urns(content) == UNION {FindUrns(t) : t \in Texts(content)}

\* re.findall(r'[\w\-./]+\.(yaml|yml|md|py|sh)', text): the pattern has one
\* group, so findall returns the text of the group, the extension.
RECURSIVE FindExtensions(_)
FindExtensions(text) ==
    IF text = <<>> THEN {}
    ELSE IF ~PathChar(Head(text)) THEN FindExtensions(Tail(text))
    ELSE LET n    == RunLen(text, "path")
             ends == {j \in 2..(n - 1) : text[j] = "." /\ text[j + 1] \in Extensions}
         IN  (IF ends = {} THEN {}
              ELSE {<<text[1 + CHOOSE j \in ends : \A j2 \in ends : j2 <= j]>>})
             \cup FindExtensions(SubSeq(text, n + 1, Len(text)))

\* re.findall(prefix + r'/[\w\-./]+', text): no group, the whole match.
RECURSIVE FindRooted(_, _)
FindRooted(prefix, text) ==
    IF Len(text) < 3 THEN {}
    ELSE IF text[1] = prefix /\ text[2] = "/" /\ PathChar(text[3])
    THEN LET n == RunLen(SubSeq(text, 3, Len(text)), "path") IN
         {SubSeq(text, 1, 2 + n)} \cup FindRooted(prefix, SubSeq(text, 3 + n, Len(text)))
    ELSE FindRooted(prefix, Tail(text))

_extract_file_references(content) ==
    UNION {FindExtensions(t) \cup FindRooted("controlplane", t)
              \cup FindRooted("workspace", t) : t \in Texts(content)}

\* Lines 247-250 for one registry content: the URNs of its entries.
EntryUrns(content) ==
    LET entries == Get(content, "entries")
        one(e) ==
            CASE e.k = "map" ->
                    IF ~KeyIn("urn", e) THEN [raised |-> FALSE, urns |-> {}]
                    ELSE IF ~Hashable(Get(e, "urn")) THEN [raised |-> TRUE, urns |-> {}]
                    ELSE [raised |-> FALSE, urns |-> {PyKey(Get(e, "urn"))}]
              [] e.k \in {"str", "list"} -> [raised |-> KeyIn("urn", e), urns |-> {}]
              [] OTHER -> [raised |-> TRUE, urns |-> {}]
    IN  CASE entries.k = "list" ->
                LET rs == [i \in DOMAIN entries.v |-> one(entries.v[i])] IN
                [raised |-> \E i \in DOMAIN rs : rs[i].raised,
                 urns   |-> UNION {rs[i].urns : i \in DOMAIN rs}]
          \* iterating a mapping yields its keys, iterating a string its
          \* characters; `"urn" in x` is then a substring test
          [] entries.k = "map" ->
                [raised |-> \E i \in DOMAIN entries.v : entries.v[i].key = "urn",
                 urns   |-> {}]
          [] entries.k = "str" -> [raised |-> FALSE, urns |-> {}]
          [] OTHER -> [raised |-> TRUE, urns |-> {}]

\* Lines 241-250.
AvailableUrns(regs) ==
    LET ls == LoadAll(regs)
        rs == [i \in DOMAIN ls.items |->
                 LET c == ls.items[i].load.val IN
                 IF ReadRaises(c, "entries") THEN [raised |-> TRUE, urns |-> {}]
                 ELSE IF ~KeyIn("entries", c) THEN [raised |-> FALSE, urns |-> {}]
                 ELSE EntryUrns(c)]
    IN  [raised |-> ls.raised \/ \E i \in DOMAIN rs : rs[i].raised,
         urns   |-> UNION {rs[i].urns : i \in DOMAIN rs}]

\* _find_registry_files_for_urn without the comparison of line 931: a registry
\* file is related as soon as one of its entries declares any URN.
_find_registry_files_for_urn_AnyUrn(regs, urn) ==
    LET ls == LoadAll(regs)
        withEntries == SelectSeq(ls.items, LAMBDA x : KeyIn("entries", x.load.val))
        declares(e) == e.k = "map" /\ KeyIn("urn", e)
        \* the entries reached before the `break`
        reached(es) == LET hits == {i \in DOMAIN es : declares(es[i])} IN
                       IF hits = {} THEN DOMAIN es
                       ELSE 1..(CHOOSE i \in hits : \A j \in hits : i <= j)
        one(x) == LET es == Get(x.load.val, "entries") IN
                  CASE es.k = "list" ->
                         [raised |-> \E i \in reached(es.v) : es.v[i].k # "map",
                          found  |-> \E i \in DOMAIN es.v : declares(es.v[i])]
                    [] es.k \in {"map", "str"} -> [raised |-> es.v # <<>>, found |-> FALSE]
                    [] OTHER -> [raised |-> TRUE, found |-> FALSE]
        rs == [i \in DOMAIN withEntries |-> one(withEntries[i])]
    IN  [raised |-> \E i \in DOMAIN rs : rs[i].raised,
         files  |-> LET hit == SelectSeq([i \in DOMAIN rs |->
                                  [name |-> withEntries[i].name, found |-> rs[i].found]],
                                  LAMBDA x : x.found)
                    IN [i \in DOMAIN hit |-> RelPath(REGISTRY_DIR, hit[i].name)]]

\* _find_registry_files_for_urn: entry.get raises on an entry that is not a
\* mapping.
_find_registry_files_for_urn(regs, urn) ==
    LET ls == LoadAll(regs)
        withEntries == SelectSeq(ls.items, LAMBDA x : KeyIn("entries", x.load.val))
        declares(e) == e.k = "map" /\ KeyIn("urn", e) /\ Get(e, "urn") = Str(urn)
        \* the entries reached before the `break`
        reached(es) == LET hits == {i \in DOMAIN es : declares(es[i])} IN
                       IF hits = {} THEN DOMAIN es
                       ELSE 1..(CHOOSE i \in hits : \A j \in hits : i <= j)
        one(x) == LET es == Get(x.load.val, "entries") IN
                  CASE es.k = "list" ->
                         [raised |-> \E i \in reached(es.v) : es.v[i].k # "map",
                          found  |-> \E i \in DOMAIN es.v : declares(es.v[i])]
                    [] es.k \in {"map", "str"} -> [raised |-> es.v # <<>>, found |-> FALSE]
                    [] OTHER -> [raised |-> TRUE, found |-> FALSE]
        rs == [i \in DOMAIN withEntries |-> one(withEntries[i])]
    IN  [raised |-> \E i \in DOMAIN rs : rs[i].raised,
         files  |-> LET hit == SelectSeq([i \in DOMAIN rs |->
                                  [name |-> withEntries[i].name, found |-> rs[i].found]],
                                  LAMBDA x : x.found)
                    IN [i \in DOMAIN hit |-> RelPath(REGISTRY_DIR, hit[i].name)]]

\* ref_path.exists(): the paths under the workspace root that exist are the
\* artifacts of the three roots, the gate map and their directories.
ExistingPaths(cfg, specs, regs, gates) ==
    {RelPath(CONFIG_DIR, cfg[i].name) : i \in DOMAIN cfg}
    \cup {RelPath(SPECS_DIR, specs[i].name) : i \in DOMAIN specs}
    \cup {RelPath(REGISTRY_DIR, regs[i].name) : i \in DOMAIN regs}
    \cup {RelPath(CONFIG_DIR, gates[i].name) : i \in DOMAIN gates}
    \cup {SubSeq(d, 1, n) : d \in {CONFIG_DIR, SPECS_DIR, REGISTRY_DIR},
                            n \in {2, 3, 4, 5, 6}}

\* UrnIssues without the test of line 258: every referenced URN is reported.
UrnIssues_IgnoresRegistry(f, regs, order) ==
    LET l == _load_yaml(f)
        body(urn) ==
            LET rel == _find_registry_files_for_urn(regs, urn) IN
            IF rel.raised THEN Raised
            ELSE Returned(<<ValidationIssue("high", "reference",
                        RelPath(CONFIG_DIR, f.name),
                        <<"referenced URN does not exist">> \o urn, FALSE, rel.files)>>)
    IN  IF l.raised THEN Raised
        ELSE IF ~HasContent(l) THEN Returned(<<>>)
        ELSE IF JsonRaises(l.val) THEN Raised
        ELSE ForEach(order, body)

\* Lines 252-269 for one config file; order is the order in which the set
\* referenced_urns is iterated.
UrnIssues(f, regs, order) ==
    LET l == _load_yaml(f)
        avail == AvailableUrns(regs).urns
        body(urn) ==
            IF Str(urn) \in avail THEN Returned(<<>>)
            ELSE LET rel == _find_registry_files_for_urn(regs, urn) IN
                 IF rel.raised THEN Raised
                 ELSE Returned(<<ValidationIssue("high", "reference",
                        RelPath(CONFIG_DIR, f.name),
                        <<"referenced URN does not exist">> \o urn, FALSE, rel.files)>>)
    IN  IF l.raised THEN Raised
        ELSE IF ~HasContent(l) THEN Returned(<<>>)
        ELSE IF JsonRaises(l.val) THEN Raised
        ELSE ForEach(order, body)

\* Lines 271-289 for one config file; order is the order in which the set
\* file_references is iterated.
FileRefIssues(f, existing, order) ==
    LET l == _load_yaml(f)
        body(ref) ==
            IF ref \in existing THEN Returned(<<>>)
            ELSE Returned(<<ValidationIssue("medium", "reference",
                   RelPath(CONFIG_DIR, f.name),
                   <<"referenced file does not exist">> \o ref, FALSE, <<ref>>)>>)
    IN  IF l.raised THEN Raised
        ELSE IF ~HasContent(l) THEN Returned(<<>>)
        ELSE IF JsonRaises(l.val) THEN Raised
        ELSE ForEach(order, body)

\* The sets the two loops iterate for one file (empty when it is skipped).
UrnSetOf(f) ==
    LET l == _load_yaml(f) IN
    IF HasContent(l) /\ ~JsonRaises(l.val) THEN _extract_urns(l.val) ELSE {}
RefSetOf(f) ==
    LET l == _load_yaml(f) IN
    IF HasContent(l) /\ ~JsonRaises(l.val) THEN _extract_file_references(l.val) ELSE {}

\* One iteration order for each file's set.
Orders(files, setOf(_)) ==
    {o \in [DOMAIN files -> UNION {Perms(setOf(files[i])) : i \in DOMAIN files}] :
        \A i \in DOMAIN files : o[i] \in Perms(setOf(files[i]))}

validate_reference_integrity(cfg, specs, regs, gates, uo, ro) ==
    IF AvailableUrns(regs).raised THEN Raised
    ELSE Combine(
           [i \in DOMAIN cfg |-> UrnIssues(cfg[i], regs, uo[i])]
        \o [i \in DOMAIN cfg |->
              FileRefIssues(cfg[i], ExistingPaths(cfg, specs, regs, gates), ro[i])])

---------------------------------------------------------------------------
(* validate_dependency_graph: construction of the graph                    *)

\* _extract_dependencies: the set of declared dependencies, or a raise
\* (content is not a mapping, or a list holds an unhashable element).
_extract_dependencies(content) ==
    LET fromField(fld, strToo) ==
            IF ReadRaises(content, fld) THEN [raised |-> TRUE, deps |-> {}]
            ELSE IF ~KeyIn(fld, content) THEN [raised |-> FALSE, deps |-> {}]
            ELSE LET d == Get(content, fld) IN
                 IF d.k = "list"
                 THEN [raised |-> \E i \in DOMAIN d.v : ~Hashable(d.v[i]),
                       deps   |-> {PyKey(d.v[i]) : i \in DOMAIN d.v}]
                 ELSE IF strToo /\ d.k = "str"
                 THEN [raised |-> FALSE, deps |-> {d}]
                 ELSE [raised |-> FALSE, deps |-> {}]
        a == fromField("depends_on", TRUE)
        b == fromField("imports", FALSE)
    IN  [raised |-> a.raised \/ b.raised, deps |-> a.deps \cup b.deps]

\* Lines 302-308: the node set.
AllFiles(cfg, specs, regs) ==
    {cfg[i].name : i \in DOMAIN cfg} \cup {specs[i].name : i \in DOMAIN specs}
        \cup {regs[i].name : i \in DOMAIN regs}

\* KeptEdge without the test of line 318: every declared name is an edge.
KeptEdge_KeepsAll(dep, nodes) == dep.k = "str"

\* Lines 310-319: the dependencies of the artifacts kept as edges.  The
\* graph is a defaultdict: a file gets a key when its first edge is added.
KeptEdge(dep, nodes) == dep.k = "str" /\ dep.v \in nodes

BuildGraph(cfg, specs, regs) ==
    LET nodes == AllFiles(cfg, specs, regs)
        ls    == LoadAll(cfg \o specs \o regs)
        ds    == [i \in DOMAIN ls.items |-> _extract_dependencies(ls.items[i].load.val)]
        edges == UNION {{<<ls.items[i].name, d.v>> :
                            d \in {x \in ds[i].deps : KeptEdge(x, nodes)}}
                        : i \in DOMAIN ls.items}
        keys  == {e[1] : e \in edges}
    IN  [raised |-> ls.raised \/ \E i \in DOMAIN ds : ds[i].raised,
         graph  |-> [n \in keys |-> {e[2] : e \in {x \in edges : x[1] = n}}]]

\* dependency_graph[node] on a defaultdict(set): the value, and the graph
\* after the access (a missing key is inserted with an empty set).
Neighbors(g, node) == IF node \in DOMAIN g THEN g[node] ELSE {}
Touch(g, node) == IF node \in DOMAIN g THEN g
                  ELSE [n \in DOMAIN g \cup {node} |-> IF n = node THEN {} ELSE g[n]]

\* Lines 353-366: a dependency issue for every edge whose target is unknown.
\* The pairs are visited key by key; order is one such order of the pairs.
MissingPairs(g, nodes) ==
    UNION {{<<fn, d>> : d \in {x \in g[fn] : x \notin nodes}} : fn \in DOMAIN g}

MissingOrders(g, nodes) ==
    {o \in Perms(MissingPairs(g, nodes)) :
        \A i, j, m \in DOMAIN o : (i < j /\ j < m /\ o[i][1] = o[m][1]) => o[j][1] = o[i][1]}

MissingDependencies(order) ==
    [i \in DOMAIN order |->
        ValidationIssue("medium", "dependency", order[i][1],
            <<"dependency does not exist">> \o order[i][2], FALSE, <<order[i][2]>>)]

---------------------------------------------------------------------------
(* validate_new_files                                                      *)

NamespaceSpec == <<"root", ".", "specs", ".", "namespace", ".", "yaml">>
PathsSpec     == <<"root", ".", "specs", ".", "paths", ".", "yaml">>
UrnSpec       == <<"root", ".", "specs", ".", "urn", ".", "yaml">>
new_spec_files == <<NamespaceSpec, PathsSpec, UrnSpec>>

DevicesRegistry    == <<"root", ".", "registry", ".", "devices", ".", "yaml">>
NamespacesRegistry == <<"root", ".", "registry", ".", "namespaces", ".", "yaml">>
new_registry_files == <<DevicesRegistry, NamespacesRegistry>>

GatesMap == <<"gates", ".", "map", ".", "yaml">>

\* The file of a directory listing with the given name, as a tuple of 0 or 1.
Lookup(files, name) == SelectSeq(files, LAMBDA f : f.name = name)

\* One high, auto-fixable issue per listed field that is not in the content.
MissingFields(path, content, fields, label) ==
    ForEach(fields, LAMBDA fld :
        IF InRaises(content) THEN Raised
        ELSE IF ~KeyIn(fld, content)
        THEN Returned(<<ValidationIssue("high", "schema", path,
                          <<label, fld>>, TRUE, <<>>)>>)
        ELSE Returned(<<>>))

\* Lines 381-434 for one of the three specification files.
NewSpecFile(specs, name) ==
    LET fs == Lookup(specs, name) IN
    IF fs = <<>> THEN Returned(<<>>)
    ELSE LET l == _load_yaml(fs[1])
             path == RelPath(SPECS_DIR, name)
         IN  IF l.raised THEN Raised
             ELSE IF ~HasContent(l) THEN Returned(<<>>)
             ELSE IF Contains(name, <<"namespace">>)
             THEN MissingFields(path, l.val,
                      <<"namespaces", "hierarchy", "validation_rules">>,
                      "namespace spec lacks required field")
             ELSE IF Contains(name, <<"paths">>)
             THEN MissingFields(path, l.val,
                      <<"path_patterns", "validation_rules", "mapping_rules">>,
                      "paths spec lacks required field")
             ELSE IF Contains(name, <<"urn">>)
             THEN MissingFields(path, l.val,
                      <<"urn_format", "namespace_rules", "validation_rules">>,
                      "URN spec lacks required field")
             ELSE Returned(<<>>)

\* Lines 442-486 for one of the two registry files.
NewRegistryFile(regs, name) ==
    LET fs == Lookup(regs, name) IN
    IF fs = <<>> THEN Returned(<<>>)
    ELSE LET l == _load_yaml(fs[1])
             path == RelPath(REGISTRY_DIR, name)
             c == l.val
         IN  IF l.raised THEN Raised
             ELSE IF ~HasContent(l) THEN Returned(<<>>)
             ELSE IF InRaises(c) THEN Raised
             ELSE IF ~KeyIn("entries", c)
             THEN Returned(<<ValidationIssue("high", "schema", path,
                               <<"registry file lacks entries field">>, TRUE, <<>>)>>)
             ELSE IF GetRaises(c) THEN Raised
             ELSE LET entries == Get(c, "entries") IN
                  IF entries.k # "list"
                  THEN Returned(<<ValidationIssue("high", "schema", path,
                                    <<"entries field must be an array">>, TRUE, <<>>)>>)
                  ELSE LET bad == SelectSeq([i \in DOMAIN entries.v |->
                                               [i |-> i, k |-> entries.v[i].k]],
                                            LAMBDA x : x.k # "map")
                       IN Returned([j \in DOMAIN bad |->
                            ValidationIssue("medium", "schema", path,
                               <<"entry must be an object", ToString(bad[j].i - 1)>>,
                               TRUE, <<>>)])

\* Lines 508-536 for one gate of the gate map.
GateIssues(path, gate) ==
    IF gate.val.k # "map"
    THEN Returned(<<ValidationIssue("medium", "schema", path,
                      <<"gate config must be an object", gate.key>>, TRUE, <<>>)>>)
    ELSE ForEach(<<"enabled", "description">>, LAMBDA fld :
            IF ~KeyIn(fld, gate.val)
            THEN Returned(<<ValidationIssue("medium", "schema", path,
                              <<"gate lacks required field", gate.key, fld>>, TRUE, <<>>)>>)
            ELSE Returned(<<>>))

\* Lines 488-536.
GatesFile(gates) ==
    IF gates = <<>> THEN Returned(<<>>)
    ELSE LET l == _load_yaml(gates[1])
             path == RelPath(CONFIG_DIR, GatesMap)
             c == l.val
         IN  IF l.raised THEN Raised
             ELSE IF ~HasContent(l) THEN Returned(<<>>)
             ELSE Combine(<<
                    MissingFields(path, c, <<"version", "gates", "execution_order">>,
                                  "gates.map.yaml lacks required field"),
                    IF InRaises(c) THEN Raised
                    ELSE IF ~KeyIn("gates", c) THEN Returned(<<>>)
                    ELSE IF GetRaises(c) THEN Raised
                    \* gates.items() exists on a mapping only
                    ELSE IF Get(c, "gates").k # "map" THEN Raised
                    ELSE ForEach(Get(c, "gates").v, LAMBDA g : GateIssues(path, g))>>)

validate_new_files(specs, regs, gates) ==
    Combine([i \in DOMAIN new_spec_files |-> NewSpecFile(specs, new_spec_files[i])]
         \o [i \in DOMAIN new_registry_files |-> NewRegistryFile(regs, new_registry_files[i])]
         \o <<GatesFile(gates)>>)

---------------------------------------------------------------------------
(* calculate_file_metrics                                                  *)

\* _extract_entities: every key of every mapping of the tree.
RECURSIVE NestedKeys(_)
NestedKeys(c) ==
    CASE c.k = "map"  -> UNION {{c.v[i].key} \cup NestedKeys(c.v[i].val) : i \in DOMAIN c.v}
      [] c.k = "list" -> UNION {NestedKeys(c.v[i]) : i \in DOMAIN c.v}
      [] OTHER        -> {}

_extract_entities(content) == NestedKeys(content)

\* max([]) raises ValueError: calculate_depth raises on a tree that holds an
\* empty mapping or an empty sequence.
RECURSIVE DepthRaises(_)
DepthRaises(c) ==
    CASE c.k = "map"  -> c.v = <<>> \/ \E i \in DOMAIN c.v : DepthRaises(c.v[i].val)
      [] c.k = "list" -> c.v = <<>> \/ \E i \in DOMAIN c.v : DepthRaises(c.v[i])
      [] OTHER        -> FALSE

RECURSIVE MaxOf(_)
MaxOf(s) == IF Len(s) = 1 THEN s[1] ELSE Max(Head(s), MaxOf(Tail(s)))

RECURSIVE calculate_depth(_, _)
calculate_depth(c, current_depth) ==
    CASE c.k = "map"  -> MaxOf([i \in DOMAIN c.v |-> calculate_depth(c.v[i].val, current_depth + 1)])
      [] c.k = "list" -> MaxOf([i \in DOMAIN c.v |-> calculate_depth(c.v[i], current_depth + 1)])
      [] OTHER        -> current_depth

RECURSIVE count_objects(_)
count_objects(c) ==
    CASE c.k = "map"  -> 1 + SumSeq([i \in DOMAIN c.v |-> count_objects(c.v[i].val)])
      [] c.k = "list" -> SumSeq([i \in DOMAIN c.v |-> count_objects(c.v[i])])
      [] OTHER        -> 0

RECURSIVE count_array_items(_)
count_array_items(c) ==
    CASE c.k = "list" -> Len(c.v) + SumSeq([i \in DOMAIN c.v |-> count_array_items(c.v[i])])
      [] c.k = "map"  -> SumSeq([i \in DOMAIN c.v |-> count_array_items(c.v[i].val)])
      [] OTHER        -> 0

_calculate_complexity(content) ==
    Min(calculate_depth(content, 0) * 10 + count_objects(content) * 5
            + count_array_items(content) * 2, 100)

\* _validate_naming_convention asking for the prefix of a specification file.
_validate_naming_convention_SpecsOnly(filename) ==
    StartsWith(filename, <<"root", ".", "specs", ".">>)

_validate_naming_convention(filename) == StartsWith(filename, <<"root", ".">>)

\* check_empty: FALSE when a mapping of the tree has a value that is None or
\* "".  An element of a sequence is only descended into.
RECURSIVE check_empty(_)
check_empty(c) ==
    CASE c.k = "map"  -> \A i \in DOMAIN c.v :
                            /\ c.v[i].val.k # "null"
                            /\ c.v[i].val # Str(<<>>)
                            /\ check_empty(c.v[i].val)
      [] c.k = "list" -> \A i \in DOMAIN c.v : check_empty(c.v[i])
      [] OTHER        -> TRUE

_validate_data_integrity(content) == check_empty(content)

_calculate_quality_score(content, filename) ==
    Max(100 - (IF ~KeyIn("version", content) THEN 20 ELSE 0)
            - 5 * Cardinality({fld \in {"description", "created", "updated"} :
                                  ~KeyIn(fld, content)})
            - (IF ~_validate_naming_convention(filename) THEN 10 ELSE 0)
            - (IF ~_validate_data_integrity(content) THEN 15 ELSE 0),
        0)

\* A FileMetrics dataclass instance (the byte size of the file is not part
\* of the model).
FileMetrics(path, type, ents, refs, deps, cx, q) ==
    [cls |-> "FileMetrics", file_path |-> path, file_type |-> type,
     entity_count |-> ents, reference_count |-> refs, dependency_count |-> deps,
     complexity_score |-> cx, quality_score |-> q]

\* Lines 549-574 for one file: no entry, one entry, or a raise.
MetricsOf(dir, f) ==
    LET l == _load_yaml(f)
        c == l.val
        Got(ms) == [raised |-> FALSE, issues |-> ms]
    IN  IF l.raised THEN Raised
        ELSE IF ~HasContent(l) THEN Got(<<>>)
        \* content.keys()
        ELSE IF c.k # "map" THEN Raised
        ELSE IF JsonRaises(c) THEN Raised
        ELSE IF _extract_dependencies(c).raised THEN Raised
        ELSE IF DepthRaises(c) THEN Raised
        ELSE Got(<<FileMetrics(RelPath(dir, f.name), _determine_file_type(f.name),
                     Cardinality(_extract_entities(c)),
                     Cardinality(_extract_urns(c)) + Cardinality(_extract_file_references(c)),
                     Cardinality(_extract_dependencies(c).deps),
                     _calculate_complexity(c),
                     _calculate_quality_score(c, f.name))>>)

\* The metrics dict in insertion order (its keys are the file_path fields).
calculate_file_metrics(cfg, specs, regs) ==
    Combine([i \in DOMAIN cfg |-> MetricsOf(CONFIG_DIR, cfg[i])]
         \o [i \in DOMAIN specs |-> MetricsOf(SPECS_DIR, specs[i])]
         \o [i \in DOMAIN regs |-> MetricsOf(REGISTRY_DIR, regs[i])])

---------------------------------------------------------------------------
(* generate_enhanced_report: results, summary and narrative                *)

\* self.results as __init__ leaves it (lines 66-81).
InitialResults ==
    [issues  |-> <<>>, metrics |-> <<>>,
     summary |-> [total_checks |-> 0, passed |-> 0, failed |-> 0,
                  warnings |-> 0, info |-> 0],
     pass    |-> FALSE]

\* len([i for i in issues if i["severity"] in sevs])
CountSeverity(is, sevs) == Len(SelectSeq(is, LAMBDA i : i.severity \in sevs))

\* The comprehensions of lines 598-600, 624, 643 and 684 subscript the
\* elements of the local list `issues`, which holds ValidationIssue
\* instances: the first element they reach raises TypeError.
ComprehensionRaises(is) == \E i \in DOMAIN is : SubscriptRaises(is[i])

\* Lines 592-604: self.results after the block, and whether it raised.  The
\* assignments before the raising line have taken effect.
UpdateResults(res, is, ms) ==
    LET r1 == [res EXCEPT !.issues = [i \in DOMAIN is |-> asdict(is[i])],
                          !.metrics = [i \in DOMAIN ms |-> asdict(ms[i])],
                          !.summary.total_checks = Len(is)]
        failed == CountSeverity(is, {"critical", "high"})
        r2 == [r1 EXCEPT !.summary.failed = failed,
                         !.summary.warnings = CountSeverity(is, {"medium"}),
                         !.summary.info = CountSeverity(is, {"low", "info"}),
                         !.summary.passed = Max(0, Len(is) - failed),
                         !.pass = (failed = 0)]
    IN  IF ComprehensionRaises(is) THEN [raised |-> TRUE, results |-> r1]
        ELSE [raised |-> FALSE, results |-> r2]

\* sorted(metrics.items(), key=quality_score, reverse=True): a stable sort.
RECURSIVE SortByQuality(_)
SortByQuality(ms) ==
    IF ms = <<>> THEN <<>>
    ELSE LET best == CHOOSE i \in DOMAIN ms :
                        /\ \A j \in DOMAIN ms : ms[j].quality_score <= ms[i].quality_score
                        /\ \A j \in 1..(i - 1) : ms[j].quality_score < ms[i].quality_score
         IN  <<ms[best]>> \o SortByQuality(SubSeq(ms, 1, best - 1) \o SubSeq(ms, best + 1, Len(ms)))

TrafficLight(q) == IF q >= 90 THEN "green" ELSE IF q >= 70 THEN "yellow" ELSE "red"

\* A bucket of the narrative: its entries, or the placeholder line.
Bucket(name, entries, placeholder) ==
    [section |-> name, entries |-> entries,
     placeholder |-> placeholder /\ entries = <<>>]

\* Lines 606-695: the narrative as its sections in order.
RenderReport(res, is, ms) ==
    <<[section |-> "summary", entries |-> <<res.summary>>, placeholder |-> FALSE],
      Bucket("critical_high",
             SelectSeq(is, LAMBDA i : i.severity \in {"critical", "high"}), TRUE),
      Bucket("medium", SelectSeq(is, LAMBDA i : i.severity = "medium"), TRUE),
      Bucket("metrics",
             LET sm == SortByQuality(ms) IN
             [i \in DOMAIN sm |-> [status |-> TrafficLight(sm[i].quality_score),
                                   metric |-> sm[i]]],
             FALSE),
      Bucket("auto_fixable", SelectSeq(is, LAMBDA i : i.auto_fixable), TRUE)>>

ReportFile == "enhanced_validation_report.md"
ResultsFile == "enhanced_validation_results.json"

---------------------------------------------------------------------------
(* The run of main(): save_results -> generate_enhanced_report             *)

\* Step with issues.extend replaced by an insertion at the front of the list.
Step_Prepends(r, next) ==
    /\ pc' = IF r.raised THEN "raised" ELSE next
    /\ traceback' = IF r.raised THEN pc ELSE traceback
    /\ issues' = IF r.raised THEN issues ELSE r.issues \o issues

\* A checker returned r: extend the issue list, or propagate its exception.
Step(r, next) ==
    /\ pc' = IF r.raised THEN "raised" ELSE next
    /\ traceback' = IF r.raised THEN pc ELSE traceback
    /\ issues' = IF r.raised THEN issues ELSE issues \o r.issues

\* Line 583.
ValidateSchemaCompliance ==
    /\ pc = "schema"
    /\ Step(validate_schema_compliance(config_root), "consistency")
    /\ UNCHANGED <<fsvars, metrics, results, report, written, exit_status, dfsvars>>

\* Line 584.
ValidateCrossFileConsistency ==
    /\ pc = "consistency"
    /\ Step(validate_cross_file_consistency(config_root, specs_root), "reference")
    /\ UNCHANGED <<fsvars, metrics, results, report, written, exit_status, dfsvars>>

\* Line 585.  The two sets of each file are iterated in some order.
ValidateReferenceIntegrity ==
    /\ pc = "reference"
    /\ \E uo \in Orders(config_root, UrnSetOf), ro \in Orders(config_root, RefSetOf) :
          Step(validate_reference_integrity(config_root, specs_root, registry_root,
                                            gates_file, uo, ro), "dependency")
    /\ UNCHANGED <<fsvars, metrics, results, report, written, exit_status, dfsvars>>

\* Line 586, lines 297-323 of validate_dependency_graph.
BuildDependencyGraph ==
    /\ pc = "dependency"
    /\ LET r == BuildGraph(config_root, specs_root, registry_root) IN
       IF r.raised
       THEN /\ pc' = "raised"
            /\ traceback' = pc
            /\ UNCHANGED dfsvars
       ELSE /\ pc' = "dfs"
            /\ UNCHANGED traceback
            /\ dependency_graph' = r.graph
            /\ all_files' = AllFiles(config_root, specs_root, registry_root)
            /\ todo' = AllFiles(config_root, specs_root, registry_root)
            /\ visited' = {}
            /\ rec_stack' = {}
            /\ frames' = <<>>
            /\ dep_issues' = <<>>
    /\ UNCHANGED <<fsvars, issues, metrics, results, report, written, exit_status>>

\* has_cycle(node) is entered: lines 326-329.
Enter(fr, node) ==
    /\ visited' = visited \cup {node}
    /\ rec_stack' = rec_stack \cup {node}
    /\ dependency_graph' = Touch(dependency_graph, node)
    /\ frames' = Append(fr, [node |-> node, rest |-> Neighbors(dependency_graph, node)])

Top == frames[Len(frames)]
Advance(nb) == [frames EXCEPT ![Len(frames)].rest = @ \ {nb}]

\* OuterLoop without the test of line 340: has_cycle is called for every node.
OuterLoop_Reenters ==
    /\ pc = "dfs" /\ frames = <<>> /\ todo # {}
    /\ \E file_name \in todo :
          /\ todo' = todo \ {file_name}
          /\ Enter(frames, file_name)
    /\ UNCHANGED <<fsvars, pc, issues, metrics, results, report, written,
                   exit_status, traceback, all_files, dep_issues>>

\* Lines 339-341: the outer loop takes the next node of the set all_files.
OuterLoop ==
    /\ pc = "dfs" /\ frames = <<>> /\ todo # {}
    /\ \E file_name \in todo :
          /\ todo' = todo \ {file_name}
          /\ IF file_name \in visited
             THEN UNCHANGED <<visited, rec_stack, dependency_graph, frames>>
             ELSE Enter(frames, file_name)
    /\ UNCHANGED <<fsvars, pc, issues, metrics, results, report, written,
                   exit_status, traceback, all_files, dep_issues>>

\* Lines 329-332: the next neighbor is unvisited and has_cycle recurses.
HasCycleDescend ==
    /\ pc = "dfs" /\ frames # <<>>
    /\ \E neighbor \in Top.rest :
          /\ neighbor \notin visited
          /\ Enter(Advance(neighbor), neighbor)
    /\ UNCHANGED <<fsvars, pc, issues, metrics, results, report, written,
                   exit_status, traceback, all_files, todo, dep_issues>>

\* Lines 333-334: the next neighbor is visited and not on the recursion
\* stack; the loop goes on.
HasCycleSkip ==
    /\ pc = "dfs" /\ frames # <<>>
    /\ \E neighbor \in Top.rest :
          /\ neighbor \in visited /\ neighbor \notin rec_stack
          /\ frames' = Advance(neighbor)
    /\ UNCHANGED <<fsvars, pc, issues, metrics, results, report, written,
                   exit_status, traceback, dependency_graph, all_files, visited, rec_stack,
                   todo, dep_issues>>

\* Lines 333-334, 331-332 and 341-351: the next neighbor is on the recursion
\* stack; every active call returns True without leaving the stack, and the
\* outer loop reports the node it started from.
HasCycleBackEdge ==
    /\ pc = "dfs" /\ frames # <<>>
    /\ \E neighbor \in Top.rest :
          /\ neighbor \in visited /\ neighbor \in rec_stack
          /\ \E related \in Perms(Neighbors(dependency_graph, frames[1].node)) :
                dep_issues' = Append(dep_issues,
                    ValidationIssue("high", "dependency", frames[1].node,
                        <<"circular dependency detected, involving file">> \o frames[1].node,
                        FALSE, related))
    /\ frames' = <<>>
    /\ UNCHANGED <<fsvars, pc, issues, metrics, results, report, written,
                   exit_status, traceback, dependency_graph, all_files, visited, rec_stack,
                   todo>>

\* Lines 336-337 without rec_stack.remove(node).
HasCycleReturnFalse_KeepsStack ==
    /\ pc = "dfs" /\ frames # <<>> /\ Top.rest = {}
    /\ frames' = SubSeq(frames, 1, Len(frames) - 1)
    /\ UNCHANGED <<fsvars, pc, issues, metrics, results, report, written,
                   exit_status, traceback, dependency_graph, all_files, visited,
                   rec_stack, todo, dep_issues>>

\* Lines 336-337: the neighbors are exhausted; the call returns False.
HasCycleReturnFalse ==
    /\ pc = "dfs" /\ frames # <<>> /\ Top.rest = {}
    /\ rec_stack' = rec_stack \ {Top.node}
    /\ frames' = SubSeq(frames, 1, Len(frames) - 1)
    /\ UNCHANGED <<fsvars, pc, issues, metrics, results, report, written,
                   exit_status, traceback, dependency_graph, all_files, visited, todo,
                   dep_issues>>

\* Lines 353-368: the missing-dependency pass, and the return.
CheckMissingDependencies ==
    /\ pc = "dfs" /\ frames = <<>> /\ todo = {}
    /\ \E order \in MissingOrders(dependency_graph, all_files) :
          issues' = issues \o dep_issues \o MissingDependencies(order)
    /\ pc' = "new_files"
    /\ UNCHANGED <<fsvars, metrics, results, report, written, exit_status, traceback, dfsvars>>

\* Line 587.
ValidateNewFiles ==
    /\ pc = "new_files"
    /\ Step(validate_new_files(specs_root, registry_root, gates_file), "metrics")
    /\ UNCHANGED <<fsvars, metrics, results, report, written, exit_status, dfsvars>>

\* CalculateFileMetrics storing the scores in self.results itself.
CalculateFileMetrics_StoresScores ==
    /\ pc = "metrics"
    /\ LET r == calculate_file_metrics(config_root, specs_root, registry_root) IN
       /\ pc' = IF r.raised THEN "raised" ELSE "results"
       /\ traceback' = IF r.raised THEN pc ELSE traceback
       /\ metrics' = IF r.raised THEN metrics ELSE r.issues
       /\ results' = IF r.raised THEN results
                     ELSE [results EXCEPT !.metrics = [i \in DOMAIN r.issues |-> asdict(r.issues[i])]]
    /\ UNCHANGED <<fsvars, issues, report, written, exit_status, dfsvars>>

\* Line 590.
CalculateFileMetrics ==
    /\ pc = "metrics"
    /\ LET r == calculate_file_metrics(config_root, specs_root, registry_root) IN
       /\ pc' = IF r.raised THEN "raised" ELSE "results"
       /\ traceback' = IF r.raised THEN pc ELSE traceback
       /\ metrics' = IF r.raised THEN metrics ELSE r.issues
    /\ UNCHANGED <<fsvars, issues, results, report, written, exit_status, dfsvars>>

\* Lines 592-604.
UpdateResultsAndSummary ==
    /\ pc = "results"
    /\ LET r == UpdateResults(results, issues, metrics) IN
       /\ results' = r.results
       /\ pc' = IF r.raised THEN "raised" ELSE "render"
       /\ traceback' = IF r.raised THEN pc ELSE traceback
    /\ UNCHANGED <<fsvars, issues, metrics, report, written, exit_status, dfsvars>>

\* Lines 606-695.
GenerateNarrative ==
    /\ pc = "render"
    /\ IF ComprehensionRaises(issues)
       THEN pc' = "raised" /\ traceback' = pc /\ UNCHANGED report
       ELSE pc' = "save" /\ UNCHANGED traceback
            /\ report' = RenderReport(results, issues, metrics)
    /\ UNCHANGED <<fsvars, issues, metrics, results, written, exit_status, dfsvars>>

\* save_results, lines 701-712: both evidence files are written.
SaveResults ==
    /\ pc = "save"
    /\ written' = (ReportFile :> report) @@ (ResultsFile :> results)
    /\ pc' = "return"
    /\ UNCHANGED <<fsvars, issues, metrics, results, report, exit_status, traceback, dfsvars>>

\* main, lines 943-951, and sys.exit of its value.
MainReturn ==
    /\ pc = "return"
    /\ exit_status' = IF results.pass THEN 0 ELSE 1
    /\ pc' = "exited"
    /\ UNCHANGED <<fsvars, issues, metrics, results, report, written, traceback, dfsvars>>

\* An exception nobody catches leaves main: the interpreter prints the
\* traceback and exits with status 1.
UncaughtException ==
    /\ pc = "raised"
    /\ exit_status' = 1
    /\ pc' = "exited"
    /\ UNCHANGED <<fsvars, issues, metrics, results, report, written, traceback, dfsvars>>

Next ==
    \/ ValidateSchemaCompliance
    \/ ValidateCrossFileConsistency
    \/ ValidateReferenceIntegrity
    \/ BuildDependencyGraph
    \/ OuterLoop
    \/ HasCycleDescend
    \/ HasCycleSkip
    \/ HasCycleBackEdge
    \/ HasCycleReturnFalse
    \/ CheckMissingDependencies
    \/ ValidateNewFiles
    \/ CalculateFileMetrics
    \/ UpdateResultsAndSummary
    \/ GenerateNarrative
    \/ SaveResults
    \/ MainReturn
    \/ UncaughtException

---------------------------------------------------------------------------
(* Workspaces the validator is run on                                      *)

MaxConfigFiles == 2   \* files in the config root
MaxEdges == 3         \* dependencies declared in a graph workspace

CfgA == <<"root", ".", "a", ".", "yaml">>
CfgB == <<"root", ".", "b", ".", "yaml">>
CfgC == <<"root", ".", "c", ".", "yaml">>
CfgGates == <<"root", ".", "gates", ".", "yaml">>
Nowhere == <<"root", ".", "nowhere", ".", "yaml">>   \* names no artifact

Text(x) == Str(<<x>>)
Urn(x)  == Str(<<"urn", ":", "device", ":", x>>)
Version(v) == KV("version", Text(v))
Documented == <<KV("description", Text("d")), KV("created", Text("t")),
                KV("updated", Text("t"))>>

\* Plain config documents: well formed, differing in version and in the
\* artifact they depend on.
PlainContents ==
    { Map(<<Version("1")>> \o Documented),
      Map(<<Version("2")>>),
      Map(<<Version("1"), KV("depends_on", Str(CfgA))>>),
      Map(<<Version("1"), KV("depends_on", Str(CfgB))>>) }

\* A chain of n mappings, one inside the other.
RECURSIVE Nested(_)
Nested(n) == IF n = 0 THEN Text("x") ELSE Map(<<KV("child", Nested(n - 1))>>)

\* Contents of a config-root document.
ConfigContents ==
    PlainContents \cup
    { Map(<<KV("name", Text("x"))>>),
      Map(<<KV("note", Null)>>),
      Map(<<Version("1"), KV("tree", Nested(6))>>),
      Map(<<KV("version", Num(1))>>),
      Map(<<Version("1"), KV("created", Date)>>),
      Map(<<Version("1"), KV("note", Null)>>),
      Map(<<Version("1"), KV("items", List(<<>>))>>),
      Map(<<Version("1"), KV("items", List(<<Null>>))>>),
      Map(<<Version("1"), KV("device", Urn("s1"))>>),
      Map(<<Version("1"), KV("device", Urn("s2"))>>),
      Map(<<Version("1"), KV("device", Urn("s2")), KV("peer", Urn("s3"))>>),
      Map(<<Version("1"), KV("doc", Str(CONFIG_DIR \o CfgA))>>),
      Map(<<Version("1"), KV("imports", List(<<Str(Nowhere)>>))>>),
      List(<<Text("version")>>),
      Num(5),
      Null }

\* Contents of the documents of a config root of several files.
SharedContents ==
    PlainContents \cup
    { Map(<<KV("name", Text("x"))>>),
      Map(<<KV("version", Num(1))>>),
      Map(<<Version("1"), KV("device", Urn("s2"))>>),
      Map(<<Version("1"), KV("imports", List(<<Str(Nowhere)>>))>>),
      Num(5) }

Unusual(f) == f.st # "ok" \/ f.content \notin PlainContents

SharedFiles(names) ==
    {File(n, "ok", c) : n \in names, c \in SharedContents}
        \cup {File(n, "malformed", Null) : n \in names}

ConfigFiles(names) ==
    {File(n, "ok", c) : n \in names, c \in ConfigContents}
        \cup {File(n, st, Null) : n \in names, st \in {"malformed", "denied"}}

\* Directory listings: tuples of files with distinct names, in any order.
Listings(files, max) ==
    UNION {{l \in [1..n -> files] : \A i, j \in 1..n : i # j => l[i].name # l[j].name}
              : n \in 0..max}

Entries(es) == Map(<<Version("1"), KV("entries", es)>>)
Declared == Map(<<KV("urn", Urn("s1")), KV("name", Text("sensor"))>>)

Gate(v) == Map(<<Version("1"), KV("gates", v), KV("execution_order", List(<<Text("g1")>>))>>)
GoodGate == Map(<<KV("enabled", Bool(TRUE)), KV("description", Text("d"))>>)

Bare == [specs |-> <<>>, registry |-> <<>>, gates |-> <<>>]
Only(dir, f) == [specs    |-> IF dir = "specs" THEN <<f>> ELSE <<>>,
                 registry |-> IF dir = "registry" THEN <<f>> ELSE <<>>,
                 gates    |-> IF dir = "gates" THEN <<f>> ELSE <<>>]

\* A workspace whose only other artifact is a registry declaring one URN.
WithRegistry == Only("registry", File(DevicesRegistry, "ok", Entries(List(<<Declared>>))))

\* The rest of the workspace: [specs, registry, gates].
\* A naming specification whose file pattern root.a.yaml does not match.
NamingSpec == <<"root", ".", "specs", ".", "naming", ".", "yaml">>
NamingRules ==
    Map(<<Version("1"), KV("rules", List(<<Text("r")>>)),
          KV("patterns", Map(<<KV("file_patterns",
              Map(<<KV("config", Str(<<"root", "\\.", "config", "\\.", ".*">>))>>))>>))>>)

\* A specification whose name holds the word config.
ConfigSpec == <<"root", ".", "specs", ".", "config", ".", "yaml">>

Surroundings ==
    {Bare, WithRegistry, Only("specs", File(NamingSpec, "ok", NamingRules)),
     Only("specs", File(ConfigSpec, "ok",
                        Map(<<Version("1"), KV("rules", List(<<Text("r")>>))>>)))}
        \cup {Only("registry", File(DevicesRegistry, "ok", c)) :
                c \in {Entries(Null),
                       Entries(Text("none")),
                       Entries(List(<<Declared, Num(3)>>)),
                       Entries(List(<<Declared, Text("sensor")>>)),
                       Map(<<Version("1")>>),
                       Null}}
        \cup {Only("registry", File(DevicesRegistry, st, Null)) : st \in {"malformed", "denied"}}
        \cup {Only("gates", File(GatesMap, "ok", c)) :
                c \in {Gate(Map(<<KV("g1", GoodGate)>>)),
                       Gate(Map(<<KV("g1", Map(<<KV("enabled", Bool(TRUE))>>)),
                                  KV("g2", Text("on"))>>)),
                       Gate(List(<<Text("g1")>>)),
                       Map(<<KV("gates", Map(<<KV("g1", GoodGate)>>))>>)}}
        \cup {Only("specs", File(NamespaceSpec, "ok", c)) :
                c \in {Map(<<Version("1"), KV("rules", List(<<Text("r")>>)),
                             KV("namespaces", Text("n")), KV("hierarchy", Text("h")),
                             KV("validation_rules", Text("v"))>>),
                       Map(<<Version("1"), KV("namespaces", Text("n"))>>),
                       Null}}
        \cup {Only("specs", File(UrnSpec, "ok",
                 Map(<<Version("1"), KV("rules", List(<<Text("r")>>)),
                       KV("urn_format", Text("u"))>>)))}

InitRun ==
    /\ pc = "schema"
    /\ issues = <<>>
    /\ metrics = <<>>
    /\ results = InitialResults
    /\ report = <<>>
    /\ written = <<>>
    /\ exit_status = -1
    /\ traceback = "none"
    /\ dependency_graph = <<>>
    /\ all_files = {}
    /\ visited = {}
    /\ rec_stack = {}
    /\ todo = {}
    /\ frames = <<>>
    /\ dep_issues = <<>>

\* Config-centred workspaces: up to MaxConfigFiles config documents, alone
\* or beside a registry.
InitConfig ==
    /\ config_root \in Listings(SharedFiles({CfgA, CfgB, CfgGates}), MaxConfigFiles)
    /\ \E s \in {Bare, WithRegistry} :
          /\ specs_root = s.specs
          /\ registry_root = s.registry
          /\ gates_file = s.gates

\* Workspaces of at most one config document, of any kind, with any
\* surroundings.
InitSurroundings ==
    /\ config_root \in Listings(ConfigFiles({CfgA, CfgGates}), 1)
    /\ \E s \in Surroundings :
          /\ specs_root = s.specs
          /\ registry_root = s.registry
          /\ gates_file = s.gates

Init == (InitConfig \/ InitSurroundings) /\ InitRun

Spec == Init /\ [][Next]_vars

\* Graph workspaces: three config documents declaring, together, up to
\* MaxEdges dependencies on the three names and on a name of no artifact.
GraphNames == <<CfgA, CfgB, CfgC>>
DepTargets == {CfgA, CfgB, CfgC, Nowhere}
Declarations ==
    {e \in SUBSET ((1..3) \X DepTargets) : Cardinality(e) <= MaxEdges}

\* The document declaring the dependencies d: one through depends_on as a
\* string, two or more through depends_on (the first) and imports (the rest).
DepContent(d) ==
    LET o == CHOOSE p \in Perms(d) : TRUE
        names == [i \in DOMAIN o |-> Str(o[i])]
    IN  Map(<<Version("1")>> \o Documented \o
            (CASE Len(o) = 0 -> <<>>
               [] Len(o) = 1 -> <<KV("depends_on", names[1])>>
               [] OTHER      -> <<KV("depends_on", List(<<names[1]>>)),
                                  KV("imports", List(Tail(names)))>>))

InitGraph ==
    /\ \E e \in Declarations :
          config_root = [i \in 1..3 |->
              File(GraphNames[i], "ok", DepContent({x[2] : x \in {y \in e : y[1] = i}}))]
    /\ specs_root = <<>>
    /\ registry_root = <<>>
    /\ gates_file = <<>>
    /\ InitRun

SpecGraph == InitGraph /\ [][Next]_vars

\* The steps of lines 324-366: the outer loop, has_cycle and the final pass.
Traversal ==
    \/ OuterLoop
    \/ HasCycleDescend
    \/ HasCycleSkip
    \/ HasCycleBackEdge
    \/ HasCycleReturnFalse
    \/ CheckMissingDependencies

\* validate_dependency_graph runs in one thread with nothing to wait for:
\* whenever the traversal has a next step, it takes it.
SpecGraphFair == SpecGraph /\ WF_vars(Traversal)

\* A validator instance kept by a caller: generate_enhanced_report is called
\* again (line 580 starts a new local issue list) once the previous call has
\* returned or raised, on the artifacts as they are by then; self.results and
\* the evidence files are those the previous call left.
MaxChangedEdges == 1   \* dependencies declared in the workspace of a later call

ChangedDeclarations == {e \in Declarations : Cardinality(e) <= MaxChangedEdges}

Reinvoke ==
    /\ pc \in {"return", "raised"}
    /\ \E e \in ChangedDeclarations :
          config_root' = [i \in 1..3 |->
              File(GraphNames[i], "ok", DepContent({x[2] : x \in {y \in e : y[1] = i}}))]
    /\ pc' = "schema"
    /\ issues' = <<>>
    /\ metrics' = <<>>
    /\ report' = <<>>
    /\ traceback' = "none"
    /\ dependency_graph' = <<>>
    /\ all_files' = {}
    /\ visited' = {}
    /\ rec_stack' = {}
    /\ todo' = {}
    /\ frames' = <<>>
    /\ dep_issues' = <<>>
    /\ UNCHANGED <<specs_root, registry_root, gates_file, results, written, exit_status>>

NextInstance ==
    \/ ValidateSchemaCompliance
    \/ ValidateCrossFileConsistency
    \/ ValidateReferenceIntegrity
    \/ BuildDependencyGraph
    \/ OuterLoop
    \/ HasCycleDescend
    \/ HasCycleSkip
    \/ HasCycleBackEdge
    \/ HasCycleReturnFalse
    \/ CheckMissingDependencies
    \/ ValidateNewFiles
    \/ CalculateFileMetrics
    \/ UpdateResultsAndSummary
    \/ GenerateNarrative
    \/ SaveResults
    \/ Reinvoke

SpecInstance == InitGraph /\ [][NextInstance]_vars

---------------------------------------------------------------------------
(* Properties                                                              *)

CheckerSteps == {"schema", "consistency", "reference", "dependency",
                 "new_files", "metrics"}

\* The five checkers and the scorer have returned to generate_enhanced_report.
CheckersReturned == traceback \notin CheckerSteps

Failing == {"critical", "high"}

\* C1: after generate_enhanced_report has run, results["pass"] is true if
\* and only if no collected issue has severity critical or high.
C1_PassIffNoFailingIssue ==
    (pc = "exited" /\ CheckersReturned)
        => (results.pass <=> CountSeverity(issues, Failing) = 0)

\* C2: after generate_enhanced_report the summary counts the issues: total,
\* failed (critical or high), warnings (medium), info (low or info) and
\* passed = max(0, total - failed).
C2_SummaryCountsIssues ==
    (pc = "exited" /\ CheckersReturned)
        => /\ results.summary.total_checks = Len(issues)
           /\ results.summary.failed = CountSeverity(issues, Failing)
           /\ results.summary.warnings = CountSeverity(issues, {"medium"})
           /\ results.summary.info = CountSeverity(issues, {"low", "info"})
           /\ results.summary.passed = Max(0, Len(issues) - CountSeverity(issues, Failing))
           /\ results.summary.total_checks =
                 results.summary.failed + results.summary.warnings + results.summary.info

\* C3: whatever the number of issues, generate_enhanced_report returns a
\* narrative with the sections critical/high, medium, metrics, auto-fixable
\* in this order, a placeholder in every empty bucket, and save_results
\* writes the report and the structured export.
C3_NarrativeAlwaysWritten ==
    (pc = "exited" /\ CheckersReturned)
        => /\ [i \in DOMAIN report |-> report[i].section]
                 = <<"summary", "critical_high", "medium", "metrics", "auto_fixable">>
           /\ \A i \in DOMAIN report :
                 (report[i].section \in {"critical_high", "medium", "auto_fixable"}
                    /\ report[i].entries = <<>>) => report[i].placeholder
           /\ DOMAIN written = {ReportFile, ResultsFile}

\* C4: the exit status of main is 0 exactly when the run has no issue of
\* severity critical or high (failed == 0), and 1 otherwise.
C4_ExitStatusIsVerdict ==
    (pc = "exited" /\ CheckersReturned)
        => exit_status = (IF CountSeverity(issues, Failing) = 0 THEN 0 ELSE 1)

\* The dependencies the artifacts declare among the known file names.
DeclaredGraph == BuildGraph(config_root, specs_root, registry_root).graph

\* The nodes reachable from the set S in one step or more.
RECURSIVE ReachableFrom(_, _, _)
ReachableFrom(g, S, seen) ==
    LET next == UNION {Neighbors(g, n) : n \in S} IN
    IF next \subseteq seen THEN seen ELSE ReachableFrom(g, next \ seen, seen \cup next)

OnCycle(g, n) == n \in ReachableFrom(g, {n}, {})
HasDirectedCycle(g) == \E n \in DOMAIN g : OnCycle(g, n)
EdgeCount(g) == Cardinality(UNION {{<<n, m>> : m \in g[n]} : n \in DOMAIN g})

IsCycleIssue(i) == i.category = "dependency" /\ i.severity = "high"

\* C5: when the declared dependencies among the known files have no
\* directed cycle, validate_dependency_graph emits no cycle issue, in any
\* order of iteration.
C5_AcyclicNoCycleIssue ==
    ~HasDirectedCycle(DeclaredGraph)
        => /\ \A i \in DOMAIN dep_issues : ~IsCycleIssue(dep_issues[i])
           /\ \A i \in DOMAIN issues : ~IsCycleIssue(issues[i])

\* An acyclic graph of three edges, one of them into a node visited before,
\* has been searched from every node without a cycle issue.
C5_Witness ==
    /\ pc = "new_files"
    /\ ~HasDirectedCycle(DeclaredGraph)
    /\ EdgeCount(DeclaredGraph) = 3
    /\ Cardinality(visited) = 3
    /\ dep_issues = <<>>

\* Two distinct nodes that depend on each other.
TwoCycle(g) == \E a, b \in DOMAIN g : a # b /\ b \in g[a] /\ a \in g[b]

\* C6: when the artifacts declare a cycle A -> B -> A, validate_dependency_graph
\* emits a high dependency issue whose file lies on a cycle, in any order of
\* iteration.
C6_CycleIssueNamesCycleNode ==
    (pc = "new_files" /\ TwoCycle(DeclaredGraph))
        => \E i \in DOMAIN issues :
              IsCycleIssue(issues[i]) /\ OnCycle(DeclaredGraph, issues[i].file_path)

\* The artifacts of the three roots with the directory of each.
Artifacts == config_root \o specs_root \o registry_root

\* The dependencies a file declares on names of no artifact.
UnknownDeps(f) ==
    LET l == _load_yaml(f) IN
    IF ~HasContent(l) THEN {}
    ELSE {d \in _extract_dependencies(l.val).deps :
             d.k = "str" /\ d.v \notin AllFiles(config_root, specs_root, registry_root)}

\* C7: for every artifact and every dependency it declares on a name that is
\* no artifact's file name, validate_dependency_graph emits exactly one
\* medium, non-auto-fixable dependency issue.
C7_OneIssuePerMissingDependency ==
    pc = "new_files"
        => \A k \in DOMAIN Artifacts : \A d \in UnknownDeps(Artifacts[k]) :
              Cardinality({i \in DOMAIN issues :
                  /\ issues[i].category = "dependency"
                  /\ issues[i].severity = "medium"
                  /\ ~issues[i].auto_fixable
                  /\ issues[i].file_path = Artifacts[k].name
                  /\ issues[i].related_files = <<d.v>>}) = 1

\* The fields a config-root document must have: those of the schema of its
\* type, `version` when its type has no schema.
RequiredOf(f) ==
    IF _determine_file_type(f.name) \in SchemaTypes
    THEN Range(required_fields(_determine_file_type(f.name)))
    ELSE {"version"}

\* C8: every config-root document that parses gets exactly one high,
\* auto-fixable schema issue per required field it lacks; none is exempt.
C8_OneIssuePerMissingRequiredField ==
    pc = "consistency"
        => \A k \in DOMAIN config_root :
              LET f == config_root[k]
                  l == _load_yaml(f)
              IN  (~l.raised /\ ~l.none /\ l.val.k = "map")
                    => \A rf \in RequiredOf(f) :
                          ~KeyIn(rf, l.val)
                            => Cardinality({i \in DOMAIN issues :
                                  issues[i] = ValidationIssue("high", "schema",
                                      RelPath(CONFIG_DIR, f.name),
                                      <<"missing required field", rf>>, TRUE, <<>>)}) = 1

\* A workspace whose only fault is a malformed config-root document of a
\* type the schema checker targets.
OnlyFaultIsMalformed ==
    /\ \E k \in DOMAIN config_root : config_root[k].st = "malformed"
    /\ \A k \in DOMAIN config_root :
          config_root[k].st = "malformed"
            => _determine_file_type(config_root[k].name) \in SchemaTypes
    /\ \A k \in DOMAIN config_root :
          config_root[k].st = "malformed" \/ ~Unusual(config_root[k])
    /\ specs_root = <<>> /\ gates_file = <<>>
    /\ registry_root \in {<<>>, WithRegistry.registry}

\* C9: a malformed config-root document never aborts the run; the schema
\* checker emits one critical issue for it and no other issue names it.
C9_MalformedNeverAborts ==
    OnlyFaultIsMalformed
        => /\ pc # "raised"
           /\ pc \notin {"schema", "raised"}
                => \A k \in DOMAIN config_root :
                      config_root[k].st = "malformed"
                        => LET mine == SelectSeq(issues, LAMBDA i :
                                  i.file_path = RelPath(CONFIG_DIR, config_root[k].name))
                           IN  /\ Len(mine) = 1
                               /\ \A i \in DOMAIN mine : mine[i].severity = "critical"

\* C10: no exception raised while analysing one artifact aborts a checker or
\* the scorer: each returns and the run reaches report generation.
C10_CheckersNeverRaise == CheckersReturned

\* The issue list a run has collected when validate_reference_integrity
\* returns, for the iteration orders uo and ro of its sets.
IssuesThroughReference(uo, ro) ==
    Combine(<<validate_schema_compliance(config_root),
              validate_cross_file_consistency(config_root, specs_root),
              validate_reference_integrity(config_root, specs_root, registry_root,
                                           gates_file, uo, ro)>>)

\* C11: a second run on the unmodified artifact set yields the same issue
\* list, in the same order, whatever the iteration order of its sets: the
\* list this run has collected is the list of every other run.
C11_RerunSameIssues ==
    (pc = "dependency" /\ traceback = "none")
        => \A uo \in Orders(config_root, UrnSetOf), ro \in Orders(config_root, RefSetOf) :
              IssuesThroughReference(uo, ro) = Returned(issues)

\* The config-root artifacts that parse to a mapping declaring `version`.
DeclaresVersion(f) ==
    f.st = "ok" /\ f.content.k = "map"
        /\ \E i \in DOMAIN f.content.v : f.content.v[i].key = "version"
DeclaredVersion(f) ==
    LET i == CHOOSE j \in DOMAIN f.content.v : f.content.v[j].key = "version"
    IN  f.content.v[i].val
Declaring == {k \in DOMAIN config_root : DeclaresVersion(config_root[k])}
VersionIssues ==
    SelectSeq(issues, LAMBDA i : i.category = "consistency" /\ i.file_path = <<"multiple">>)

\* C12: when validate_cross_file_consistency returns, the issue list holds
\* exactly one medium, auto-fixable consistency issue with path "multiple"
\* if the declaring config artifacts declare more than one distinct version,
\* its related files being exactly the declaring artifacts, and no such
\* issue otherwise.
C12_OneVersionIssue ==
    (pc = "reference" /\ traceback = "none")
        => IF Cardinality({DeclaredVersion(config_root[k]) : k \in Declaring}) > 1
           THEN /\ Len(VersionIssues) = 1
                /\ VersionIssues[1].severity = "medium"
                /\ VersionIssues[1].auto_fixable
                /\ Range(VersionIssues[1].related_files)
                      = {config_root[k].name : k \in Declaring}
                /\ Len(VersionIssues[1].related_files) = Cardinality(Declaring)
           ELSE VersionIssues = <<>>

C12_Witness ==
    /\ pc = "reference" /\ traceback = "none"
    /\ Cardinality(Declaring) = 2
    /\ Len(config_root) = 2
    /\ DeclaredVersion(config_root[1]) = Text("1")
    /\ DeclaredVersion(config_root[2]) = Text("2")
    /\ Len(VersionIssues) = 1

\* The file patterns of the naming specification root.specs.naming.yaml, as
\* [key, val] pairs; none when the workspace has no such specification.
NamingFilePatterns ==
    LET found == {k \in DOMAIN specs_root :
                     /\ specs_root[k].name = NamingSpec
                     /\ specs_root[k].st = "ok"
                     /\ KeyIn("patterns", specs_root[k].content)
                     /\ KeyIn("file_patterns", Get(specs_root[k].content, "patterns"))}
    IN  IF found = {} THEN <<>>
        ELSE Get(Get(specs_root[CHOOSE k \in found : TRUE].content, "patterns"),
                 "file_patterns").v

\* C13: when validate_cross_file_consistency returns, there is one medium,
\* non-auto-fixable consistency issue for every config-root artifact and
\* file pattern of the naming specification that the artifact's file name
\* does not match, with the naming specification as the related file.
C13_NamingIssuePerMismatch ==
    (pc = "reference" /\ traceback = "none")
        => \A k \in DOMAIN config_root : \A p \in DOMAIN NamingFilePatterns :
              ~ReMatch(NamingFilePatterns[p].val.v, config_root[k].name)
                => \E i \in DOMAIN issues :
                      /\ issues[i].category = "consistency"
                      /\ issues[i].severity = "medium"
                      /\ ~issues[i].auto_fixable
                      /\ issues[i].file_path = RelPath(CONFIG_DIR, config_root[k].name)
                      /\ issues[i].related_files = <<SPECS_DIR \o NamingSpec>>

\* The URNs the registry entries declare (entries[].urn).
RegistryUrns ==
    UNION {LET c == registry_root[r].content IN
           IF registry_root[r].st = "ok" /\ c.k = "map" /\ KeyIn("entries", c)
                /\ Get(c, "entries").k = "list"
           THEN {Get(e, "urn") : e \in {x \in Range(Get(c, "entries").v) :
                                           x.k = "map" /\ KeyIn("urn", x)}}
           ELSE {} : r \in DOMAIN registry_root}

UrnIssuesFor(f, urn) ==
    SelectSeq(issues, LAMBDA i :
        /\ i.category = "reference"
        /\ i.file_path = RelPath(CONFIG_DIR, f.name)
        /\ i.message = <<"referenced URN does not exist">> \o urn)

\* C14: when validate_reference_integrity returns, every config artifact
\* and distinct URN-shaped token of its content has exactly one high,
\* non-auto-fixable reference issue if no registry entry declares the token,
\* and none if one does.
C14_OneIssuePerUndeclaredUrn ==
    (pc = "dependency" /\ traceback = "none")
        => \A k \in DOMAIN config_root : \A urn \in UrnSetOf(config_root[k]) :
              LET mine == UrnIssuesFor(config_root[k], urn) IN
              IF Str(urn) \in RegistryUrns THEN mine = <<>>
              ELSE /\ Len(mine) = 1
                   /\ mine[1].severity = "high"
                   /\ ~mine[1].auto_fixable

\* The registry declares sensor s1, the config artifact refers to s2: one
\* issue, with no related file.
C14_Witness ==
    /\ pc = "dependency" /\ traceback = "none"
    /\ RegistryUrns = {Urn("s1")}
    /\ \E k \in DOMAIN config_root :
          /\ UrnSetOf(config_root[k]) = {Urn("s2").v}
          /\ Len(UrnIssuesFor(config_root[k], Urn("s2").v)) = 1
          /\ UrnIssuesFor(config_root[k], Urn("s2").v)[1].related_files = <<>>

\* Maximum nesting depth, number of mapping nodes and total number of
\* sequence elements of a content tree; an empty container adds no level.
RECURSIVE TreeDepth(_)
TreeDepth(c) ==
    LET kids == IF c.k = "map" THEN [i \in DOMAIN c.v |-> c.v[i].val]
                ELSE IF c.k = "list" THEN c.v ELSE <<>>
    IN  IF kids = <<>> THEN 0
        ELSE 1 + MaxOf([i \in DOMAIN kids |-> TreeDepth(kids[i])])
RECURSIVE TreeMappings(_)
TreeMappings(c) ==
    LET kids == IF c.k = "map" THEN [i \in DOMAIN c.v |-> c.v[i].val]
                ELSE IF c.k = "list" THEN c.v ELSE <<>>
    IN  (IF c.k = "map" THEN 1 ELSE 0)
            + SumSeq([i \in DOMAIN kids |-> TreeMappings(kids[i])])
RECURSIVE TreeElements(_)
TreeElements(c) ==
    LET kids == IF c.k = "map" THEN [i \in DOMAIN c.v |-> c.v[i].val]
                ELSE IF c.k = "list" THEN c.v ELSE <<>>
    IN  (IF c.k = "list" THEN Len(c.v) ELSE 0)
            + SumSeq([i \in DOMAIN kids |-> TreeElements(kids[i])])

\* The artifacts calculate_file_metrics scores.
AllArtifacts == config_root \o specs_root \o registry_root
ArtifactPath(f) ==
    RelPath(IF f \in Range(config_root) THEN CONFIG_DIR
            ELSE IF f \in Range(specs_root) THEN SPECS_DIR ELSE REGISTRY_DIR, f.name)

\* Every document is unparsable, empty, or a serialisable mapping: the
\* scorer meets no fault other than those of the scores themselves.
AllScorable ==
    \A k \in DOMAIN AllArtifacts :
        LET f == AllArtifacts[k] IN
        \/ f.st = "malformed"
        \/ f.st = "ok" /\ f.content.k = "null"
        \/ f.st = "ok" /\ f.content.k = "map" /\ ~JsonRaises(f.content)
MetricsStepDone ==
    pc = "results" \/ (pc = "raised" /\ traceback = "metrics")
MetricOf(f) ==
    SelectSeq(metrics, LAMBDA m : m.file_path = ArtifactPath(f))

\* C15: for every parsed content tree, empty mappings and sequences
\* included, the complexity score is
\* min(100, 10 * depth + 5 * mappings + 2 * sequence elements).
C15_ComplexityFormula ==
    (MetricsStepDone /\ AllScorable)
        => \A k \in DOMAIN AllArtifacts :
              LET f == AllArtifacts[k] IN
              (f.st = "ok" /\ f.content.k = "map" /\ f.content.v # <<>>)
                => /\ pc = "results"
                   /\ Len(MetricOf(f)) = 1
                   /\ MetricOf(f)[1].complexity_score
                         = Min(100, 10 * TreeDepth(f.content) + 5 * TreeMappings(f.content)
                                      + 2 * TreeElements(f.content))

\* Some value of the tree, a mapping value or a sequence element, is null
\* or the empty string.
RECURSIVE HasEmptyValue(_)
HasEmptyValue(c) ==
    LET kids == IF c.k = "map" THEN [i \in DOMAIN c.v |-> c.v[i].val]
                ELSE IF c.k = "list" THEN c.v ELSE <<>>
    IN  \E i \in DOMAIN kids :
           kids[i].k = "null" \/ kids[i] = Str(<<>>) \/ HasEmptyValue(kids[i])

HasField(c, fld) == \E i \in DOMAIN c.v : c.v[i].key = fld

\* C16: the quality score of a content tree and file name is
\* max(0, 100 - 20 (no version) - 5 per absent field of description,
\* created, updated - 10 (name without the family prefix) - 15 (some value
\* of the tree, mapping value or sequence element, is null or ""))).
C16_QualityFormula ==
    (pc = "results" /\ AllScorable)
        => \A k \in DOMAIN AllArtifacts :
              LET f == AllArtifacts[k]
                  c == f.content
              IN  (f.st = "ok" /\ c.k = "map" /\ c.v # <<>>)
                    => /\ Len(MetricOf(f)) = 1
                       /\ MetricOf(f)[1].quality_score
                             = Max(0, 100
                                 - (IF HasField(c, "version") THEN 0 ELSE 20)
                                 - 5 * Cardinality({fld \in {"description", "created", "updated"} :
                                                       ~HasField(c, fld)})
                                 - (IF SubSeq(f.name, 1, 2) = <<"root", ".">> THEN 0 ELSE 10)
                                 - (IF HasEmptyValue(c) THEN 15 ELSE 0))

\* The ordered rule: specs. -> spec, else registry. -> registry, else
\* gates. -> gates, else a name starting with root. -> config, else other.
OrderedFileType(filename) ==
    IF Contains(filename, <<"specs", ".">>) THEN "spec"
    ELSE IF Contains(filename, <<"registry", ".">>) THEN "registry"
    ELSE IF Contains(filename, <<"gates", ".">>) THEN "gates"
    ELSE IF StartsWith(filename, <<"root", ".">>) THEN "config"
    ELSE "other"

\* C17: _determine_file_type classifies every file name by the ordered
\* rule; the type each scored artifact is given is the type of the rule.
C17_FileTypeByOrderedRule ==
    (pc = "results" /\ traceback = "none")
        => \A k \in DOMAIN AllArtifacts :
              \A i \in DOMAIN MetricOf(AllArtifacts[k]) :
                 MetricOf(AllArtifacts[k])[i].file_type
                    = OrderedFileType(AllArtifacts[k].name)

\* The texts of a content that are a file path: a dotted file name with
\* one of the extensions, or a path under controlplane/ or workspace/.
IsPathText(t) ==
    /\ Len(t) >= 3
    /\ \A i \in DOMAIN t : PathChar(t[i])
    /\ \/ t[Len(t) - 1] = "." /\ t[Len(t)] \in Extensions
       \/ t[1] \in {"controlplane", "workspace"} /\ t[2] = "/"
ReferencedPaths(f) ==
    IF f.st = "ok" /\ Truthy(f.content) THEN {t \in Texts(f.content) : IsPathText(t)}
    ELSE {}

FileRefIssuesOf(f) ==
    SelectSeq(issues, LAMBDA i :
        /\ i.category = "reference"
        /\ i.file_path = RelPath(CONFIG_DIR, f.name)
        /\ Head(i.message) = "referenced file does not exist")

\* C18: when validate_reference_integrity returns, each config artifact has
\* exactly one medium, non-auto-fixable reference issue per distinct
\* referenced path that does not exist under the workspace root, naming the
\* path in its message and as its sole related file, and no file-reference
\* issue besides these.
C18_OneIssuePerMissingPath ==
    (pc = "dependency" /\ traceback = "none")
        => \A k \in DOMAIN config_root :
              LET f == config_root[k]
                  missing == ReferencedPaths(f)
                                \ ExistingPaths(config_root, specs_root, registry_root, gates_file)
                  mine == FileRefIssuesOf(f)
              IN  /\ \A p \in missing :
                        Cardinality({i \in DOMAIN mine : Tail(mine[i].message) = p}) = 1
                  /\ \A i \in DOMAIN mine :
                        /\ Tail(mine[i].message) \in missing
                        /\ mine[i].related_files = <<Tail(mine[i].message)>>
                        /\ mine[i].severity = "medium"
                        /\ ~mine[i].auto_fixable

\* The mapping a document parses to: an empty document is an empty mapping.
ParsedMapping(f) == IF f.content.k = "null" THEN EmptyMap ELSE f.content

SchemaIssuesNamed(path, msg) ==
    SelectSeq(issues, LAMBDA i :
        i.category = "schema" /\ i.file_path = path /\ i.message = msg)

\* C19: for each of the two named registry files that exists and parses,
\* the run's issue list holds one high, auto-fixable issue when `entries` is
\* missing, one when it is not a sequence, and one medium, auto-fixable
\* issue per element of the sequence that is not a record.  The registry
\* is the only artifact of the workspace.
C19_RegistryStructureIssues ==
    (pc = "exited" /\ config_root = <<>> /\ specs_root = <<>> /\ gates_file = <<>>)
        => \A r \in DOMAIN registry_root :
              LET f == registry_root[r]
                  path == RelPath(REGISTRY_DIR, f.name)
                  c == ParsedMapping(f)
                  One(msg, sev) ==
                      /\ Len(SchemaIssuesNamed(path, msg)) = 1
                      /\ SchemaIssuesNamed(path, msg)[1].severity = sev
                      /\ SchemaIssuesNamed(path, msg)[1].auto_fixable
              IN  (f.name \in Range(new_registry_files) /\ f.st = "ok"
                     /\ f.content.k \in {"null", "map"})
                    => IF ~HasField(c, "entries")
                       THEN One(<<"registry file lacks entries field">>, "high")
                       ELSE IF Get(c, "entries").k # "list"
                       THEN One(<<"entries field must be an array">>, "high")
                       ELSE \A i \in DOMAIN Get(c, "entries").v :
                               Get(c, "entries").v[i].k # "map"
                                 => One(<<"entry must be an object", ToString(i - 1)>>, "medium")

\* The fields each named specification must contain.
RequiredOfSpec(name) ==
    CASE name = NamespaceSpec -> {"namespaces", "hierarchy", "validation_rules"}
      [] name = PathsSpec     -> {"path_patterns", "validation_rules", "mapping_rules"}
      [] name = UrnSpec       -> {"urn_format", "namespace_rules", "validation_rules"}
      [] OTHER                -> {}

MissingFieldIssues(path, fld) ==
    SelectSeq(issues, LAMBDA i :
        /\ i.category = "schema" /\ i.file_path = path
        /\ Len(i.message) = 2 /\ i.message[2] = fld)

\* C20: when validate_new_files returns, each of the three named
\* specification files that exists and parses (an empty document is an
\* empty mapping) has exactly one high, auto-fixable schema issue per
\* required field of its kind that is absent, and none per field present.
C20_OneIssuePerMissingSpecField ==
    (pc = "metrics" /\ traceback = "none")
        => \A k \in DOMAIN specs_root :
              LET f == specs_root[k]
                  path == RelPath(SPECS_DIR, f.name)
              IN  (f.name \in Range(new_spec_files) /\ f.st = "ok"
                     /\ f.content.k \in {"null", "map"})
                    => \A fld \in RequiredOfSpec(f.name) :
                          LET mine == MissingFieldIssues(path, fld) IN
                          IF HasField(ParsedMapping(f), fld) THEN mine = <<>>
                          ELSE /\ Len(mine) = 1
                               /\ mine[1].severity = "high"
                               /\ mine[1].auto_fixable

\* The issues of the gate map with the given message.
GateMapIssues(msg) == SchemaIssuesNamed(RelPath(CONFIG_DIR, GatesMap), msg)

\* C21: for a gate map that exists and parses, validate_new_files returns
\* normally whatever the shape of `gates`, with one high, auto-fixable issue
\* per missing field of version, gates, execution_order, one medium,
\* auto-fixable issue per gate that is not a record and one per field of
\* enabled, description a record gate lacks.  The gate map is the only
\* artifact of the workspace.
C21_GateMapIssues ==
    (/\ pc = "metrics" \/ (pc = "raised" /\ traceback = "new_files")
     /\ config_root = <<>> /\ specs_root = <<>> /\ registry_root = <<>>
     /\ gates_file # <<>>)
        => LET c == gates_file[1].content
               One(msg, sev) ==
                   /\ Len(GateMapIssues(msg)) = 1
                   /\ GateMapIssues(msg)[1].severity = sev
                   /\ GateMapIssues(msg)[1].auto_fixable
           IN  (gates_file[1].st = "ok" /\ c.k = "map" /\ c.v # <<>>)
                 => /\ pc = "metrics"
                    /\ \A fld \in {"version", "gates", "execution_order"} :
                          IF HasField(c, fld)
                          THEN GateMapIssues(<<"gates.map.yaml lacks required field", fld>>) = <<>>
                          ELSE One(<<"gates.map.yaml lacks required field", fld>>, "high")
                    /\ (HasField(c, "gates") /\ Get(c, "gates").k = "map")
                          => \A g \in DOMAIN Get(c, "gates").v :
                                LET gate == Get(c, "gates").v[g] IN
                                IF gate.val.k # "map"
                                THEN One(<<"gate config must be an object", gate.key>>, "medium")
                                ELSE \A fld \in {"enabled", "description"} :
                                        IF HasField(gate.val, fld)
                                        THEN GateMapIssues(<<"gate lacks required field",
                                                             gate.key, fld>>) = <<>>
                                        ELSE One(<<"gate lacks required field",
                                                   gate.key, fld>>, "medium")

\* The steps of generate_enhanced_report up to the scorer's call.
BeforeScores == {"schema", "consistency", "reference", "dependency", "dfs",
                 "new_files", "metrics"}

\* C22: the run's issue list is the concatenation, in this order, of the
\* lists of the schema checker, the consistency checker, the reference
\* resolver, the dependency analyzer and the new-artifact validator; the
\* scorer has not run before the five have returned, and no summary counter
\* or verdict is computed before the scorer has run.
C22_IssuesConcatenatedInOrder ==
    /\ (pc = "metrics" /\ traceback = "none")
          => \E uo \in Orders(config_root, UrnSetOf), ro \in Orders(config_root, RefSetOf) :
                issues = validate_schema_compliance(config_root).issues
                      \o validate_cross_file_consistency(config_root, specs_root).issues
                      \o validate_reference_integrity(config_root, specs_root, registry_root,
                                                      gates_file, uo, ro).issues
                      \o dep_issues
                      \o validate_new_files(specs_root, registry_root, gates_file).issues
    /\ (pc \in BeforeScores \/ (pc = "raised" /\ traceback \in BeforeScores \ {"metrics"}))
          => metrics = <<>>
    /\ (pc \in BeforeScores \/ (pc = "raised" /\ traceback \in BeforeScores))
          => results = InitialResults

\* Three checkers have contributed: a consistency issue, then a reference
\* issue, then a dependency issue.
C22_Witness ==
    /\ pc = "metrics" /\ traceback = "none"
    /\ [i \in DOMAIN issues |-> issues[i].category]
          = <<"consistency", "reference", "dependency">>

\* The known node set: the file names of the config, spec and registry
\* artifacts.
KnownNodes == {Artifacts[i].name : i \in DOMAIN Artifacts}

\* C23: in every state of validate_dependency_graph every edge of the
\* dependency graph has its source and its target in the known node set.
C23_EdgesAmongKnownNodes ==
    \A n \in DOMAIN dependency_graph :
        n \in KnownNodes /\ dependency_graph[n] \subseteq KnownNodes

\* The traversal runs over a graph with an edge while an artifact declares
\* a dependency on an unknown name.
C23_Witness ==
    /\ pc = "dfs" /\ visited # {}
    /\ \E n \in DOMAIN dependency_graph : dependency_graph[n] # {}
    /\ \E i \in DOMAIN Artifacts : UnknownDeps(Artifacts[i]) # {}

\* C24: the dependency graph is not mutated while the cycle-detection DFS
\* runs: no step of the traversal changes its key set or a dependency set.
C24_GraphFrozenDuringDfs ==
    [][(pc = "dfs" /\ pc' = "dfs") => dependency_graph' = dependency_graph]_vars

\* A step that enters has_cycle: the call stack grows by one frame.
EntersHasCycle == Len(frames') = Len(frames) + 1

\* C25: cycle detection terminates on every dependency graph, cyclic or
\* not: the traversal, once started, reaches the end of
\* validate_dependency_graph; has_cycle is entered only for a node not yet
\* visited, and the outer loop has considered every node when it finishes.
C25_CycleDetectionTerminates ==
    /\ (pc = "dfs") ~> (pc = "new_files")
    /\ [][EntersHasCycle => frames'[Len(frames')].node \notin visited]_vars
    /\ [](pc = "new_files" => (todo = {} /\ visited = all_files))

\* The traversal of a cyclic graph of three nodes has finished.
C25_Witness ==
    /\ pc = "new_files"
    /\ HasDirectedCycle(DeclaredGraph)
    /\ Cardinality(visited) = 3
    /\ dep_issues # <<>>


\* C26: every cycle issue of validate_dependency_graph names a node that lies
\* on a directed cycle of the declared graph, and no node is named by two
\* cycle issues, whatever was detected earlier in the outer loop.
C26_CycleIssuesNameCycleNodes ==
    /\ \A i \in DOMAIN dep_issues :
          IsCycleIssue(dep_issues[i]) => OnCycle(DeclaredGraph, dep_issues[i].file_path)
    /\ \A i, j \in DOMAIN dep_issues :
          (/\ IsCycleIssue(dep_issues[i]) /\ IsCycleIssue(dep_issues[j])
           /\ dep_issues[i].file_path = dep_issues[j].file_path) => i = j


IsUrnIssue(i) ==
    /\ i.category = "reference"
    /\ Len(i.message) > 1
    /\ i.message[1] = "referenced URN does not exist"

\* C27: every unresolved-URN issue of validate_reference_integrity has an
\* empty related-files list: a URN that reaches line 259 is declared by no
\* registry entry, so _find_registry_files_for_urn finds no file for it.
C27_UrnIssueHasNoRelatedFiles ==
    \A i \in DOMAIN issues : IsUrnIssue(issues[i]) => issues[i].related_files = <<>>

\* validate_reference_integrity has returned two unresolved-URN issues while
\* the registry has entries that declare other URNs.
C27_Witness ==
    /\ pc = "dependency" /\ traceback = "none"
    /\ RegistryUrns # {}
    /\ Cardinality({i \in DOMAIN issues : IsUrnIssue(issues[i])}) = 2


\* C28: the five checkers and calculate_file_metrics are read-only: a step
\* of any of them leaves the artifacts and self.results (issues, metrics,
\* summary counters, pass) unchanged; self.results changes only in the
\* block of lines 592-604 of generate_enhanced_report.
C28_CheckersReadOnly ==
    [][/\ pc \in BeforeScores => (fsvars' = fsvars /\ results' = results)
       /\ results' # results => pc = "results"]_vars

\* The checkers and the scorer have returned issues and scores, and
\* self.results is still as the constructor left it.
C28_Witness ==
    /\ pc = "results" /\ traceback = "none"
    /\ issues # <<>> /\ metrics # <<>>
    /\ results = InitialResults


\* C29: in every state of a validator instance, from construction through
\* any number of generate_enhanced_report calls, aborted ones and calls on
\* changed artifacts included, results["pass"] is true only if
\* results["issues"] holds no issue of severity critical or high.
C29_PassOnlyWithoutFailingIssue ==
    results.pass => CountSeverity(results.issues, Failing) = 0


\* C30: every artifact scored by calculate_file_metrics in a run has a file
\* name that starts with `root.`, so the naming deduction is not applied:
\* every quality score of the metrics map lies in 50..100 and every
\* complexity score in 15..100.
C30_ScoresWithinRange ==
    \A i \in DOMAIN metrics :
        /\ \E k \in DOMAIN AllArtifacts :
              /\ ArtifactPath(AllArtifacts[k]) = metrics[i].file_path
              /\ SubSeq(AllArtifacts[k].name, 1, 2) = <<"root", ".">>
        /\ metrics[i].quality_score \in 50..100
        /\ metrics[i].complexity_score \in 15..100

\* The scorer has returned the lowest score of both ranges: a document
\* without version and documentation fields that holds a null value.
C30_Witness ==
    /\ pc = "results"
    /\ \E i \in DOMAIN metrics :
          metrics[i].quality_score = 50 /\ metrics[i].complexity_score = 15

=============================================================================
